---- MODULE Spec2Model ----
(***************************************************************************)
(* Verification model of the yona shielded-pool program                    *)
(* (program/programs/yona): the deposit, withdraw and swap instruction     *)
(* handlers, the public-amount and fee checks of utils.rs, the nullifier   *)
(* registration of light.rs and the commitment accumulator they use.       *)
(*                                                                         *)
(* Integers are scaled: the program's 64-bit words are WordBits wide here, *)
(* the BN254 scalar field is the additive group modulo FieldModulus, which *)
(* like the real one is larger than every sum of two words and about 5.3   *)
(* times smaller than the range of a 32-byte string.  Fee rates keep       *)
(* their real width (u16) and the real basis-point denominator.            *)
(***************************************************************************)
EXTENDS Integers, Sequences, FiniteSets, TLC

VARIABLES
    tree,        \* MerkleTreeAccount: the commitment accumulator
    config,      \* GlobalConfig: the fee policy
    registry,    \* the nullifiers registered with the external registry
    bal,         \* token balances of the accounts the handlers move value between
    events,      \* the records emitted by completed transactions
    phase,       \* "idle" | "pending" | "done": position of the transaction in flight
    pending,     \* the transaction request in flight (NoRequest when idle)
    last,        \* outcome of the executed transaction: error kind and steps run
    completed,   \* history: the requests of the completed transactions, in order
    rootsEver,   \* history: every root the tree has had, oldest first
    feeProbe,    \* arguments and outcome of a validate_fee call
    amtProbe,    \* arguments and outcome of a check_public_amount call
    bindProbe    \* arguments and outcome of two ext-data binding comparisons

vars == <<tree, config, registry, bal, events, phase, pending, last,
          completed, rootsEver, feeProbe, amtProbe, bindProbe>>

-----------------------------------------------------------------------------
(* Bounds of the model *)

\* width of the program's 64-bit words (i64, u64) in the model
WordBits == 15
\* depth D of the commitment tree
TreeDepth == 2
\* size K of the root-history ring
RootHistorySize == 3
\* token balance of the depositing user at the start
InitUserBalance == 2500
\* max_deposit_amount of the tree account at the start
InitMaxDeposit == 1000
\* how many fields of a request may deviate from a well-formed request
MaxFaults == 2

-----------------------------------------------------------------------------
(* Machine integers *)

I64Min == -(2 ^ (WordBits - 1))
I64Max == 2 ^ (WordBits - 1) - 1
U64Max == 2 ^ WordBits - 1
\* `x as u64` of a wider unsigned value: the low word
AsU64(x) == x % (2 ^ WordBits)
\* u16::MAX, the largest fee rate or margin the parameter type admits
U16Max == 65535
\* u128::MAX on the scale of the model: no product of a word and a u16 reaches it
U128Max == 2147483647
\* basis-point denominator
BPS == 10000

Abs(x) == IF x < 0 THEN -x ELSE x
Min(a, b) == IF a < b THEN a ELSE b

\* the None of a checked operation (every word value is >= 0)
Overflow == 0 - 1

\* u128::checked_mul: Overflow when the product does not fit
CheckedMulU128(a, b) ==
    IF b # 0 /\ a > U128Max \div b THEN Overflow ELSE a * b

-----------------------------------------------------------------------------
(* The scalar field and 32-byte strings *)

\* modulus of the proof's scalar field (ark_bn254::Fr), scaled
FieldModulus == 3 * (2 ^ WordBits) + 1
\* largest value of a 32-byte string read as a big-endian integer, scaled
Bytes32Max == 2 ^ (WordBits + 4) - 1
\* Fr::from_be_bytes_mod_order
FrFromBytes(b) == b % FieldModulus
\* Fr::from(u64)
FrFromU64(x) == x % FieldModulus
FrSub(a, b) == (a - b) % FieldModulus
FrAdd(a, b) == (a + b) % FieldModulus
FrNeg(a) == (FieldModulus - a) % FieldModulus

\* check_public_amount with the fee left out of a negative amount's encoding
check_public_amount_neg_without_fee(ext_amount, fee, public_amount_bytes) ==
    IF ext_amount = I64Min THEN FALSE
    ELSE
      LET fee_fr == FrFromU64(fee)
          ext_amount_fr == FrFromU64(Abs(ext_amount))
      IN  IF ext_amount >= 0 /\ ext_amount_fr <= fee_fr THEN FALSE
          ELSE
            LET result_public_amount ==
                    IF ext_amount >= 0
                    THEN FrSub(ext_amount_fr, fee_fr)
                    ELSE FrNeg(ext_amount_fr)
                provided_amount == FrFromBytes(public_amount_bytes)
            IN  result_public_amount = provided_amount

\* check_public_amount with the amount-covers-fee test made strict (<)
check_public_amount_strict(ext_amount, fee, public_amount_bytes) ==
    IF ext_amount = I64Min THEN FALSE
    ELSE
      LET fee_fr == FrFromU64(fee)
          ext_amount_fr == FrFromU64(Abs(ext_amount))
      IN  IF ext_amount >= 0 /\ ext_amount_fr < fee_fr THEN FALSE
          ELSE
            LET result_public_amount ==
                    IF ext_amount >= 0
                    THEN FrSub(ext_amount_fr, fee_fr)
                    ELSE FrNeg(FrAdd(ext_amount_fr, fee_fr))
                provided_amount == FrFromBytes(public_amount_bytes)
            IN  result_public_amount = provided_amount

\* check_public_amount without the test that a non-negative amount exceeds the fee
check_public_amount_no_cover_test(ext_amount, fee, public_amount_bytes) ==
    IF ext_amount = I64Min THEN FALSE
    ELSE
      LET fee_fr == FrFromU64(fee)
          ext_amount_fr == FrFromU64(Abs(ext_amount))
          result_public_amount ==
              IF ext_amount >= 0
              THEN FrSub(ext_amount_fr, fee_fr)
              ELSE FrNeg(FrAdd(ext_amount_fr, fee_fr))
          provided_amount == FrFromBytes(public_amount_bytes)
      IN  result_public_amount = provided_amount

\* check_public_amount without the rejection of the signed 64-bit minimum
check_public_amount_accepts_min(ext_amount, fee, public_amount_bytes) ==
    LET fee_fr == FrFromU64(fee)
        ext_amount_fr == FrFromU64(Abs(ext_amount))
    IN  IF ext_amount >= 0 /\ ext_amount_fr <= fee_fr THEN FALSE
        ELSE
          LET result_public_amount ==
                  IF ext_amount >= 0
                  THEN FrSub(ext_amount_fr, fee_fr)
                  ELSE FrNeg(FrAdd(ext_amount_fr, fee_fr))
              provided_amount == FrFromBytes(public_amount_bytes)
          IN  result_public_amount = provided_amount

\* check_public_amount comparing the claimed bytes without reducing them
check_public_amount_canonical_only(ext_amount, fee, public_amount_bytes) ==
    IF ext_amount = I64Min THEN FALSE
    ELSE
      LET fee_fr == FrFromU64(fee)
          ext_amount_fr == FrFromU64(Abs(ext_amount))
      IN  IF ext_amount >= 0 /\ ext_amount_fr <= fee_fr THEN FALSE
          ELSE
            LET result_public_amount ==
                    IF ext_amount >= 0
                    THEN FrSub(ext_amount_fr, fee_fr)
                    ELSE FrNeg(FrAdd(ext_amount_fr, fee_fr))
            IN  result_public_amount = public_amount_bytes

\* utils.rs check_public_amount
check_public_amount(ext_amount, fee, public_amount_bytes) ==
    IF ext_amount = I64Min THEN FALSE
    ELSE
      LET fee_fr == FrFromU64(fee)
          ext_amount_fr == FrFromU64(Abs(ext_amount))
      IN  IF ext_amount >= 0 /\ ext_amount_fr <= fee_fr THEN FALSE
          ELSE
            LET result_public_amount ==
                    IF ext_amount >= 0
                    THEN FrSub(ext_amount_fr, fee_fr)
                    ELSE FrNeg(FrAdd(ext_amount_fr, fee_fr))
                provided_amount == FrFromBytes(public_amount_bytes)
            IN  result_public_amount = provided_amount

-----------------------------------------------------------------------------
(* Fee policy: utils.rs validate_fee *)

\* the fee the rate asks for, as the code computes it: the u128 quotient
\* narrowed to u64 with `as u64`
ExpectedFee(amount, rate) ==
    LET prod == CheckedMulU128(amount, rate)
    IN  IF prod = Overflow THEN Overflow ELSE AsU64(prod \div BPS)

\* the minimum acceptable fee with the tolerance margin left out
MinAcceptableFee_no_margin(expected_fee, fee_error_margin) ==
    IF expected_fee > 0
    THEN IF fee_error_margin > BPS THEN Overflow ELSE expected_fee
    ELSE 0

\* the minimum acceptable fee for an expected fee
MinAcceptableFee(expected_fee, fee_error_margin) ==
    IF expected_fee > 0
    THEN IF fee_error_margin > BPS THEN Overflow   \* 10000u128.checked_sub
         ELSE LET prod == CheckedMulU128(expected_fee, BPS - fee_error_margin)
              IN  IF prod = Overflow THEN Overflow ELSE AsU64(prod \div BPS)
    ELSE 0

\* one direction of validate_fee with a margin on both sides of the expected fee
FeeBranch_two_sided(amount, provided_fee, rate, fee_error_margin) ==
    LET expected_fee == ExpectedFee(amount, rate)
    IN  IF expected_fee = Overflow THEN "ArithmeticOverflow"
        ELSE LET min_acceptable_fee == MinAcceptableFee(expected_fee, fee_error_margin)
             IN  IF min_acceptable_fee = Overflow THEN "ArithmeticOverflow"
                 ELSE IF /\ provided_fee >= min_acceptable_fee
                         /\ provided_fee <= expected_fee + (expected_fee - min_acceptable_fee)
                      THEN "Ok"
                 ELSE "InvalidFeeAmount"

\* one direction of validate_fee: amount is the magnitude of ext_amount
FeeBranch(amount, provided_fee, rate, fee_error_margin) ==
    LET expected_fee == ExpectedFee(amount, rate)
    IN  IF expected_fee = Overflow THEN "ArithmeticOverflow"
        ELSE LET min_acceptable_fee == MinAcceptableFee(expected_fee, fee_error_margin)
             IN  IF min_acceptable_fee = Overflow THEN "ArithmeticOverflow"
                 ELSE IF provided_fee >= min_acceptable_fee THEN "Ok"
                 ELSE "InvalidFeeAmount"

validate_fee(ext_amount, provided_fee, deposit_fee_rate, withdrawal_fee_rate, fee_error_margin) ==
    IF ext_amount > 0
    THEN FeeBranch(ext_amount, provided_fee, deposit_fee_rate, fee_error_margin)
    ELSE IF ext_amount < 0
    THEN IF ext_amount = I64Min THEN "ArithmeticOverflow"   \* checked_neg
         ELSE FeeBranch(-ext_amount, provided_fee, withdrawal_fee_rate,
                        fee_error_margin)
    ELSE "Ok"

-----------------------------------------------------------------------------
(* Commitment accumulator (MerkleTree over MerkleTreeAccount) *)

\* a hash of two nodes that is not injective: the sum of the nodes modulo 4,
\* never 0
Hash_additive(l, r) == ((l + r) % 4) + 1

\* the arithmetic hash of two nodes: an injective pairing, never 0
Hash(l, r) == ((l + r) * (l + r + 1)) \div 2 + r + 1

\* the empty leaf
ZeroLeaf == 0
\* content of a root-history slot that was never written
FillerRoot == 0

RECURSIVE ZeroHash(_)
\* root of an empty subtree of the given height
ZeroHash(level) ==
    IF level = 0 THEN ZeroLeaf ELSE Hash(ZeroHash(level - 1), ZeroHash(level - 1))

\* root of the tree of zeros
InitialRoot == ZeroHash(TreeDepth)
\* number of leaves the tree holds
TreeCapacity == 2 ^ TreeDepth

\* the tree account after initialisation
InitTree ==
    [ next_index         |-> 0,
      filled_subtrees    |-> [i \in 1..TreeDepth |-> ZeroHash(i - 1)],
      root_history       |-> [i \in 1..RootHistorySize |->
                                 IF i = 1 THEN InitialRoot ELSE FillerRoot],
      root_index         |-> 1,
      max_deposit_amount |-> InitMaxDeposit ]

\* the tree's current root: the slot the ring cursor wrote last
CurrentRoot(t) == t.root_history[t.root_index]

\* is_known_root that compares with the current root only
is_known_root_current_only(t, root) == root = CurrentRoot(t)

\* is_known_root that takes the content of a slot never written for a root
is_known_root_with_filler(t, root) ==
    \/ root = CurrentRoot(t)
    \/ \E i \in 1..RootHistorySize : t.root_history[i] = root

\* true iff root is the current root or one of the roots in root_history; the
\* content of a slot that was never written is not a root
is_known_root(t, root) ==
    /\ root # FillerRoot
    /\ \/ root = CurrentRoot(t)
       \/ \E i \in 1..RootHistorySize : t.root_history[i] = root

RECURSIVE HashPath(_, _, _, _)
\* the path of intermediate hashes from level i up to the root, with the
\* filled_subtrees cache it leaves: [hash, subtrees]
HashPath(i, index, node, subtrees) ==
    IF i > TreeDepth THEN [hash |-> node, subtrees |-> subtrees]
    ELSE IF index % 2 = 0
         THEN HashPath(i + 1, index \div 2, Hash(node, ZeroHash(i - 1)),
                       [subtrees EXCEPT ![i] = node])
         ELSE HashPath(i + 1, index \div 2, Hash(subtrees[i], node), subtrees)

\* append with a capacity check that lets one leaf too many in
append_one_past_capacity(t, leaf) ==
    IF t.next_index > TreeCapacity
    THEN [err |-> "MerkleTreeFull", tree |-> t]
    ELSE LET path == HashPath(1, t.next_index, leaf, t.filled_subtrees)
             new_root_index == (t.root_index % RootHistorySize) + 1
         IN  [err  |-> "Ok",
              tree |-> [t EXCEPT !.filled_subtrees = path.subtrees,
                                 !.root_history[new_root_index] = path.hash,
                                 !.root_index = new_root_index,
                                 !.next_index = @ + 1]]

\* append that writes the account anew and leaves the deposit limit at zero
append_resets_limit(t, leaf) ==
    IF t.next_index >= TreeCapacity
    THEN [err |-> "MerkleTreeFull", tree |-> t]
    ELSE LET path == HashPath(1, t.next_index, leaf, t.filled_subtrees)
             new_root_index == (t.root_index % RootHistorySize) + 1
         IN  [err  |-> "Ok",
              tree |-> [ next_index         |-> t.next_index + 1,
                         filled_subtrees    |-> path.subtrees,
                         root_history       |-> [t.root_history EXCEPT
                                                    ![new_root_index] = path.hash],
                         root_index         |-> new_root_index,
                         max_deposit_amount |-> 0 ]]

\* append with a capacity check that refuses the last leaf of the tree
append_capacity_less_one(t, leaf) ==
    IF t.next_index >= TreeCapacity - 1
    THEN [err |-> "MerkleTreeFull", tree |-> t]
    ELSE LET path == HashPath(1, t.next_index, leaf, t.filled_subtrees)
             new_root_index == (t.root_index % RootHistorySize) + 1
         IN  [err  |-> "Ok",
              tree |-> [t EXCEPT !.filled_subtrees = path.subtrees,
                                 !.root_history[new_root_index] = path.hash,
                                 !.root_index = new_root_index,
                                 !.next_index = @ + 1]]

\* MerkleTree::append: [err, tree]
append(t, leaf) ==
    IF t.next_index >= TreeCapacity
    THEN [err |-> "MerkleTreeFull", tree |-> t]
    ELSE LET path == HashPath(1, t.next_index, leaf, t.filled_subtrees)
             new_root_index == (t.root_index % RootHistorySize) + 1
         IN  [err  |-> "Ok",
              tree |-> [t EXCEPT !.filled_subtrees = path.subtrees,
                                 !.root_history[new_root_index] = path.hash,
                                 !.root_index = new_root_index,
                                 !.next_index = @ + 1]]

-----------------------------------------------------------------------------
(* Ext-data binding (utils.rs calculate_complete_ext_data_hash,            *)
(* calculate_swap_ext_data_hash and the field comparison of the handlers)  *)

\* number of binary digits of a 32-byte string on the scale of the model
Bytes32Bits == WordBits + 4

RECURSIVE ReverseBytes(_, _)
\* the value of an n-digit string read in the opposite digit order
ReverseBytes(b, n) ==
    IF n = 0 THEN 0 ELSE (b % 2) * (2 ^ (n - 1)) + ReverseBytes(b \div 2, n - 1)

\* Fr::from_le_bytes_mod_order (a string is named by its big-endian value)
FrFromLeBytes(b) == ReverseBytes(b, Bytes32Bits) % FieldModulus

RECURSIVE hash(_)
\* hash(&serialized_ext_data).to_bytes(): the 32-byte digest of the serialized
\* structure; it has no collisions among the structures of the requests below
hash(serialized) ==
    IF serialized = <<>> THEN 7
    ELSE (hash(SubSeq(serialized, 1, Len(serialized) - 1)) * 131
             + (serialized[Len(serialized)] % (2 ^ Bytes32Bits)) + 1) % (2 ^ Bytes32Bits)

\* the digest of the canonical structure of a single-asset transaction
\* (recipient, ext_amount, encrypted_output, fee, fee_recipient, mint, mint);
\* the recipient stands first, the fields that are the same in every request
\* are not serialized
calculate_complete_ext_data_hash(ext_amount, fee) ==
    hash(<<0, ext_amount, fee>>)

\* the digest of the canonical structure of a swap
\* (ext_amount, ext_min_amount_out, encrypted_output, fee, fee_recipient, mints)
calculate_swap_ext_data_hash(ext_amount, ext_min_amount_out, fee) ==
    hash(<<ext_amount, ext_min_amount_out, fee>>)

\* the comparison with binary order of the digest's digits kept (big-endian)
ext_data_hash_matches_be(calculated_ext_data_hash, ext_data_hash) ==
    FrFromBytes(calculated_ext_data_hash) = FrFromBytes(ext_data_hash)

\* the handlers' comparison of the digest with the proof's ext_data_hash
ext_data_hash_matches(calculated_ext_data_hash, ext_data_hash) ==
    FrFromLeBytes(calculated_ext_data_hash) = FrFromBytes(ext_data_hash)

-----------------------------------------------------------------------------
(* Proof verification: utils.rs verify_compressed_proof *)

\* proof is what the three decompressions, the verifier's constructor and the
\* pairing check make of the proof elements and the public inputs
verify_compressed_proof(proof) ==
    IF ~proof.decompress_ok THEN "panic"        \* .unwrap() of the Err
    ELSE IF ~proof.verifier_ok THEN "false"
    ELSE IF proof.pairing = "true" THEN "true"
    ELSE "false"                                \* Ok(false) or Err: unwrap_or(false)

-----------------------------------------------------------------------------
(* Nullifier registration: light.rs create_light_nullifiers *)

CANONICAL_ADDRESS_TREE == "amt1"

\* derive_address: the registry identity of a nullifier
derive_address(nullifier, tree_pubkey) == <<"nullifier", nullifier, tree_pubkey>>

\* create_light_nullifiers over a registry that creates an address again
create_light_nullifiers_no_exists_check(reg, input_nullifiers, light) ==
    IF light.tree0 = "unresolved"
    THEN [err |-> "InvalidNullifierAddress", registry |-> reg]
    ELSE IF light.tree0 # CANONICAL_ADDRESS_TREE
    THEN [err |-> "InvalidAddressTree", registry |-> reg]
    ELSE IF light.tree1 = "unresolved"
    THEN [err |-> "InvalidNullifierAddress", registry |-> reg]
    ELSE IF light.tree1 # CANONICAL_ADDRESS_TREE
    THEN [err |-> "InvalidAddressTree", registry |-> reg]
    ELSE IF ~light.proof_ok
    THEN [err |-> "LightProtocolError", registry |-> reg]
    ELSE [err |-> "Ok",
          registry |-> reg \cup {derive_address(input_nullifiers[1], light.tree0),
                                 derive_address(input_nullifiers[2], light.tree1)}]

\* create_light_nullifiers over a registry that takes one address asked for twice
\* in a call as one new address
create_light_nullifiers_accepts_equal(reg, input_nullifiers, light) ==
    IF light.tree0 = "unresolved"
    THEN [err |-> "InvalidNullifierAddress", registry |-> reg]
    ELSE IF light.tree0 # CANONICAL_ADDRESS_TREE
    THEN [err |-> "InvalidAddressTree", registry |-> reg]
    ELSE IF light.tree1 = "unresolved"
    THEN [err |-> "InvalidNullifierAddress", registry |-> reg]
    ELSE IF light.tree1 # CANONICAL_ADDRESS_TREE
    THEN [err |-> "InvalidAddressTree", registry |-> reg]
    ELSE LET nullifier0_address == derive_address(input_nullifiers[1], light.tree0)
             nullifier1_address == derive_address(input_nullifiers[2], light.tree1)
         IN  \* the registry creates both addresses or fails the call: an address
             \* that exists cannot be proved new
             IF \/ ~light.proof_ok
                \/ nullifier0_address \in reg
                \/ nullifier1_address \in reg
             THEN [err |-> "LightProtocolError", registry |-> reg]
             ELSE [err |-> "Ok",
                   registry |-> reg \cup {nullifier0_address, nullifier1_address}]

\* create_light_nullifiers without the comparison of the address trees with the
\* canonical one
create_light_nullifiers_any_tree(reg, input_nullifiers, light) ==
    IF light.tree0 = "unresolved"
    THEN [err |-> "InvalidNullifierAddress", registry |-> reg]
    ELSE IF light.tree1 = "unresolved"
    THEN [err |-> "InvalidNullifierAddress", registry |-> reg]
    ELSE LET nullifier0_address == derive_address(input_nullifiers[1], light.tree0)
             nullifier1_address == derive_address(input_nullifiers[2], light.tree1)
         IN  \* the registry creates both addresses or fails the call: an address
             \* that exists (or is asked for twice) cannot be proved new
             IF \/ ~light.proof_ok
                \/ nullifier0_address \in reg
                \/ nullifier1_address \in reg
                \/ nullifier0_address = nullifier1_address
             THEN [err |-> "LightProtocolError", registry |-> reg]
             ELSE [err |-> "Ok",
                   registry |-> reg \cup {nullifier0_address, nullifier1_address}]

\* create_light_nullifiers that passes only the first new address to the registry
create_light_nullifiers_first_only(reg, input_nullifiers, light) ==
    IF light.tree0 = "unresolved"
    THEN [err |-> "InvalidNullifierAddress", registry |-> reg]
    ELSE IF light.tree0 # CANONICAL_ADDRESS_TREE
    THEN [err |-> "InvalidAddressTree", registry |-> reg]
    ELSE IF light.tree1 = "unresolved"
    THEN [err |-> "InvalidNullifierAddress", registry |-> reg]
    ELSE IF light.tree1 # CANONICAL_ADDRESS_TREE
    THEN [err |-> "InvalidAddressTree", registry |-> reg]
    ELSE LET nullifier0_address == derive_address(input_nullifiers[1], light.tree0)
             nullifier1_address == derive_address(input_nullifiers[2], light.tree1)
         IN  \* the registry creates both addresses or fails the call: an address
             \* that exists (or is asked for twice) cannot be proved new
             IF \/ ~light.proof_ok
                \/ nullifier0_address \in reg
                \/ nullifier1_address \in reg
                \/ nullifier0_address = nullifier1_address
             THEN [err |-> "LightProtocolError", registry |-> reg]
             ELSE [err |-> "Ok",
                   registry |-> reg \cup {nullifier0_address}]

\* [err, registry]: reg is the set of identities the registry holds
create_light_nullifiers(reg, input_nullifiers, light) ==
    IF light.tree0 = "unresolved"
    THEN [err |-> "InvalidNullifierAddress", registry |-> reg]
    ELSE IF light.tree0 # CANONICAL_ADDRESS_TREE
    THEN [err |-> "InvalidAddressTree", registry |-> reg]
    ELSE IF light.tree1 = "unresolved"
    THEN [err |-> "InvalidNullifierAddress", registry |-> reg]
    ELSE IF light.tree1 # CANONICAL_ADDRESS_TREE
    THEN [err |-> "InvalidAddressTree", registry |-> reg]
    ELSE LET nullifier0_address == derive_address(input_nullifiers[1], light.tree0)
             nullifier1_address == derive_address(input_nullifiers[2], light.tree1)
         IN  \* the registry creates both addresses or fails the call: an address
             \* that exists (or is asked for twice) cannot be proved new
             IF \/ ~light.proof_ok
                \/ nullifier0_address \in reg
                \/ nullifier1_address \in reg
                \/ nullifier0_address = nullifier1_address
             THEN [err |-> "LightProtocolError", registry |-> reg]
             ELSE [err |-> "Ok",
                   registry |-> reg \cup {nullifier0_address, nullifier1_address}]

-----------------------------------------------------------------------------
(* A handler run: the error so far, the steps run, and the handler's view   *)
(* of the accounts                                                          *)

StartRun ==
    [ err |-> "Ok", steps |-> <<>>, tree |-> tree, registry |-> registry,
      bal |-> bal, events |-> events, new_roots |-> <<>> ]

Running(r) == r.err = "Ok"

\* the element of a one-element set
Only(S) == CHOOSE x \in S : TRUE

\* r with step added to the steps run and the error it ended in
Stepped(r, step, err) == [r EXCEPT !.steps = Append(@, step), !.err = err]

\* require!(cond, e)
Require(run, step, cond, e) ==
    Only({ IF ~Running(r) THEN r ELSE Stepped(r, step, IF cond THEN "Ok" ELSE e)
           : r \in {run} })

\* a call that returns Ok(()) or an error, propagated with `?`
Try(run, step, result) ==
    Only({ IF ~Running(r) THEN r ELSE Stepped(r, step, result) : r \in {run} })

\* create_light_nullifiers(...)?
Register(run, step, req) ==
    Only({ IF ~Running(r) THEN r
           ELSE Only({ [Stepped(r, step, res.err) EXCEPT !.registry = res.registry]
                       : res \in {create_light_nullifiers(r.registry,
                                                          req.input_nullifiers, req.light)} })
           : r \in {run} })

\* transfer_checked(from -> to, amount)?: the token program refuses to
\* overdraw the source account
Transfer(run, step, from, to, amount) ==
    Only({ IF ~Running(r) THEN r
           ELSE IF r.bal[from] < amount THEN Stepped(r, step, "TokenInsufficientFunds")
           ELSE [Stepped(r, step, "Ok") EXCEPT
                    !.bal = [[@ EXCEPT ![from] = @ - amount] EXCEPT ![to] = @ + amount]]
           : r \in {run} })

\* the same, made only `if amount > 0`
TransferIfPositive(run, step, from, to, amount) ==
    Only({ IF Running(r) /\ amount > 0 THEN Transfer(r, step, from, to, amount) ELSE r
           : r \in {run} })

\* the append call with its result dropped instead of propagated with `?`
AppendLeaf_ignore_error(run, step, leaf) ==
    Only({ IF ~Running(r) THEN r
           ELSE Only({ [Stepped(r, step, "Ok") EXCEPT
                          !.tree = res.tree,
                          !.new_roots = IF res.err = "Ok"
                                        THEN Append(@, CurrentRoot(res.tree)) ELSE @]
                       : res \in {append(r.tree, leaf)} })
           : r \in {run} })

\* MerkleTree::append(leaf, tree_account)?
AppendLeaf(run, step, leaf) ==
    Only({ IF ~Running(r) THEN r
           ELSE Only({ [Stepped(r, step, res.err) EXCEPT
                          !.tree = res.tree,
                          !.new_roots = IF res.err = "Ok"
                                        THEN Append(@, CurrentRoot(res.tree)) ELSE @]
                       : res \in {append(r.tree, leaf)} })
           : r \in {run} })

\* emit!(record)
Emit(run, step, record) ==
    Only({ IF ~Running(r) THEN r
           ELSE [Stepped(r, step, "Ok") EXCEPT !.events = Append(@, record)]
           : r \in {run} })

CommitmentData(index, req) ==
    [ type        |-> "CommitmentData",
      index       |-> index,
      commitment0 |-> req.output_commitments[1],
      commitment1 |-> req.output_commitments[2] ]

\* the invoke_signed of the exchange instruction: the exchange takes `spent`
\* from the input custody account and changes the output custody account by
\* `received`, or fails
InvokeExchange(run, step, req) ==
    Only({ IF ~Running(r) THEN r
           ELSE IF \/ ~req.exchange.ok
                   \/ r.bal.reserve_a < req.exchange.spent
                   \/ r.bal.reserve_b + req.exchange.received < 0
           THEN Stepped(r, step, "ExchangeFailed")
           ELSE [Stepped(r, step, "Ok") EXCEPT
                    !.bal.reserve_a = @ - req.exchange.spent,
                    !.bal.reserve_b = @ + req.exchange.received]
           : r \in {run} })

\* the outcome of verify_compressed_proof inside require!(..., InvalidProof)
RequireProof(run, step, req) ==
    Only({ IF ~Running(r) THEN r
           ELSE Only({ Stepped(r, step, IF v = "true" THEN "Ok"
                                        ELSE IF v = "panic" THEN "Panic"
                                        ELSE "InvalidProof")
                       : v \in {verify_compressed_proof(req.proof)} })
           : r \in {run} })

-----------------------------------------------------------------------------
(* The instruction handlers *)

\* the deposit checks with leg 1 compared after reduction into the field
DepositValidate_leg1_reduced(run, req) ==
    LET ext_amount == req.ext_amount
        fee == req.fee
        r1 == Require(run, "root", is_known_root(tree, req.root), "UnknownRoot")
        r2 == Require(r1, "binding",
                      ext_data_hash_matches(calculate_complete_ext_data_hash(ext_amount, fee),
                                            req.ext_data_hash),
                      "ExtDataHashMismatch")
        r3 == Require(r2, "amount0",
                      check_public_amount(ext_amount, fee, req.public_amount0),
                      "InvalidPublicAmountData")
        r4 == Require(r3, "amount1", FrFromBytes(req.public_amount1) = 0,
                      "InvalidPublicAmountData")
        r5 == Try(r4, "fee",
                  validate_fee(ext_amount, fee, config.deposit_fee_rate,
                               config.withdrawal_fee_rate, config.fee_error_margin))
        r6 == RequireProof(r5, "proof", req)
        r7 == Require(r6, "direction", ext_amount > 0, "InvalidExtAmount")
        r8 == Require(r7, "limit", ext_amount <= tree.max_deposit_amount,
                      "DepositLimitExceeded")
    IN  r8

\* the deposit checks with the proof verified before the fee is validated
DepositValidate_proof_before_fee(run, req) ==
    LET ext_amount == req.ext_amount
        fee == req.fee
        r1 == Require(run, "root", is_known_root(tree, req.root), "UnknownRoot")
        r2 == Require(r1, "binding",
                      ext_data_hash_matches(calculate_complete_ext_data_hash(ext_amount, fee),
                                            req.ext_data_hash),
                      "ExtDataHashMismatch")
        r3 == Require(r2, "amount0",
                      check_public_amount(ext_amount, fee, req.public_amount0),
                      "InvalidPublicAmountData")
        r4 == Require(r3, "amount1", req.public_amount1 = 0, "InvalidPublicAmountData")
        r5 == RequireProof(r4, "proof", req)
        r6 == Try(r5, "fee",
                  validate_fee(ext_amount, fee, config.deposit_fee_rate,
                               config.withdrawal_fee_rate, config.fee_error_margin))
        r7 == Require(r6, "direction", ext_amount > 0, "InvalidExtAmount")
        r8 == Require(r7, "limit", ext_amount <= tree.max_deposit_amount,
                      "DepositLimitExceeded")
    IN  r8

\* the deposit's checks without the comparison with max_deposit_amount
DepositValidate_no_limit_check(run, req) ==
    LET ext_amount == req.ext_amount
        fee == req.fee
        r1 == Require(run, "root", is_known_root(tree, req.root), "UnknownRoot")
        r2 == Require(r1, "binding",
                      ext_data_hash_matches(calculate_complete_ext_data_hash(ext_amount, fee),
                                            req.ext_data_hash),
                      "ExtDataHashMismatch")
        r3 == Require(r2, "amount0",
                      check_public_amount(ext_amount, fee, req.public_amount0),
                      "InvalidPublicAmountData")
        r4 == Require(r3, "amount1", req.public_amount1 = 0, "InvalidPublicAmountData")
        r5 == Try(r4, "fee",
                  validate_fee(ext_amount, fee, config.deposit_fee_rate,
                               config.withdrawal_fee_rate, config.fee_error_margin))
        r6 == RequireProof(r5, "proof", req)
        r7 == Require(r6, "direction", ext_amount > 0, "InvalidExtAmount")
        r8 == Require(r7, "limit", TRUE,
                      "DepositLimitExceeded")
    IN  r8

\* deposit.rs handler, lines 96-156: the checks made before any account changes
DepositValidate(run, req) ==
    LET ext_amount == req.ext_amount
        fee == req.fee
        r1 == Require(run, "root", is_known_root(tree, req.root), "UnknownRoot")
        r2 == Require(r1, "binding",
                      ext_data_hash_matches(calculate_complete_ext_data_hash(ext_amount, fee),
                                            req.ext_data_hash),
                      "ExtDataHashMismatch")
        r3 == Require(r2, "amount0",
                      check_public_amount(ext_amount, fee, req.public_amount0),
                      "InvalidPublicAmountData")
        r4 == Require(r3, "amount1", req.public_amount1 = 0, "InvalidPublicAmountData")
        r5 == Try(r4, "fee",
                  validate_fee(ext_amount, fee, config.deposit_fee_rate,
                               config.withdrawal_fee_rate, config.fee_error_margin))
        r6 == RequireProof(r5, "proof", req)
        r7 == Require(r6, "direction", ext_amount > 0, "InvalidExtAmount")
        r8 == Require(r7, "limit", ext_amount <= tree.max_deposit_amount,
                      "DepositLimitExceeded")
    IN  r8

\* the deposit's account changes with the fee sent to the pool custody account
DepositMove_fee_to_custody(run, req) ==
    LET deposit_amount == req.ext_amount
        r10 == Transfer(run, "transfer", "user_a", "reserve_a", deposit_amount)
        r11 == TransferIfPositive(r10, "fee_transfer", "user_a", "reserve_a", req.fee)
        next_index_to_insert == tree.next_index
        r12 == AppendLeaf(r11, "append0", req.output_commitments[1])
        r13 == AppendLeaf(r12, "append1", req.output_commitments[2])
        r14 == Emit(r13, "emit_commitment", CommitmentData(next_index_to_insert, req))
        r15 == Emit(r14, "emit_event",
                    [type |-> "DepositEvent", amount |-> deposit_amount])
    IN  r15

\* the deposit's account changes with the record's index read after the appends
DepositMove_index_after_append(run, req) ==
    LET deposit_amount == req.ext_amount
        r10 == Transfer(run, "transfer", "user_a", "reserve_a", deposit_amount)
        r11 == TransferIfPositive(r10, "fee_transfer", "user_a", "fee_a", req.fee)
        r12 == AppendLeaf(r11, "append0", req.output_commitments[1])
        r13 == AppendLeaf(r12, "append1", req.output_commitments[2])
        next_index_to_insert == r13.tree.next_index
        r14 == Emit(r13, "emit_commitment", CommitmentData(next_index_to_insert, req))
        r15 == Emit(r14, "emit_event",
                    [type |-> "DepositEvent", amount |-> deposit_amount])
    IN  r15

\* deposit.rs handler, lines 169-215: transfers, appends and emitted records
DepositMove(run, req) ==
    LET deposit_amount == req.ext_amount
        r10 == Transfer(run, "transfer", "user_a", "reserve_a", deposit_amount)
        r11 == TransferIfPositive(r10, "fee_transfer", "user_a", "fee_a", req.fee)
        next_index_to_insert == tree.next_index
        r12 == AppendLeaf(r11, "append0", req.output_commitments[1])
        r13 == AppendLeaf(r12, "append1", req.output_commitments[2])
        r14 == Emit(r13, "emit_commitment", CommitmentData(next_index_to_insert, req))
        r15 == Emit(r14, "emit_event",
                    [type |-> "DepositEvent", amount |-> deposit_amount])
    IN  r15

\* the deposit handler with the nullifiers registered before the checks
DepositHandler_register_first(req) ==
    DepositMove(DepositValidate(Register(StartRun, "register", req), req), req)

\* instructions/deposit.rs handler
DepositHandler(req) ==
    DepositMove(Register(DepositValidate(StartRun, req), "register", req), req)

\* withdraw.rs handler, lines 102-144: the checks made before any account changes
WithdrawValidate(run, req) ==
    LET ext_amount == req.ext_amount
        fee == req.fee
        r1 == Require(run, "root", is_known_root(tree, req.root), "UnknownRoot")
        r2 == Require(r1, "binding",
                      ext_data_hash_matches(calculate_complete_ext_data_hash(ext_amount, fee),
                                            req.ext_data_hash),
                      "ExtDataHashMismatch")
        r3 == Require(r2, "amount0",
                      check_public_amount(ext_amount, fee, req.public_amount0),
                      "InvalidPublicAmountData")
        r4 == Require(r3, "amount1", req.public_amount1 = 0, "InvalidPublicAmountData")
        r5 == Try(r4, "fee",
                  validate_fee(ext_amount, fee, config.deposit_fee_rate,
                               config.withdrawal_fee_rate, config.fee_error_margin))
        r6 == RequireProof(r5, "proof", req)
        r7 == Require(r6, "direction", ext_amount < 0, "InvalidExtAmount")
    IN  r7

\* the withdraw payments with the payout made before the fee payment
WithdrawMove_payout_first(run, req) ==
    LET ext_amount == req.ext_amount
        r9 == Require(run, "negate", ext_amount # I64Min, "ArithmeticOverflow")
        withdrawal_amount_u64 == -ext_amount
        r10 == Require(r9, "custody", bal.reserve_a >= withdrawal_amount_u64,
                       "InsufficientFundsForWithdrawal")
        r11 == Require(r10, "owner", req.recipient_owner_ok, "Unauthorized")
        r12 == Transfer(r11, "payout", "reserve_a", "recipient_a", withdrawal_amount_u64)
        r13 == TransferIfPositive(r12, "fee_transfer", "reserve_a", "fee_a", req.fee)
        next_index_to_insert == tree.next_index
        r14 == AppendLeaf(r13, "append0", req.output_commitments[1])
        r15 == AppendLeaf(r14, "append1", req.output_commitments[2])
        r16 == Emit(r15, "emit_commitment", CommitmentData(next_index_to_insert, req))
        r17 == Emit(r16, "emit_event",
                    [type |-> "WithdrawEvent", amount |-> withdrawal_amount_u64])
    IN  r17

\* the withdrawal's account changes with the commitments appended before the
\* custody check and the payments
WithdrawMove_append_first(run, req) ==
    LET ext_amount == req.ext_amount
        next_index_to_insert == tree.next_index
        r9 == AppendLeaf(run, "append0", req.output_commitments[1])
        r10 == AppendLeaf(r9, "append1", req.output_commitments[2])
        r11 == Require(r10, "negate", ext_amount # I64Min, "ArithmeticOverflow")
        withdrawal_amount_u64 == -ext_amount
        r12 == Require(r11, "custody", bal.reserve_a >= withdrawal_amount_u64,
                       "InsufficientFundsForWithdrawal")
        r13 == TransferIfPositive(r12, "fee_transfer", "reserve_a", "fee_a", req.fee)
        r14 == Require(r13, "owner", req.recipient_owner_ok, "Unauthorized")
        r15 == Transfer(r14, "payout", "reserve_a", "recipient_a", withdrawal_amount_u64)
        r16 == Emit(r15, "emit_commitment", CommitmentData(next_index_to_insert, req))
        r17 == Emit(r16, "emit_event",
                    [type |-> "WithdrawEvent", amount |-> withdrawal_amount_u64])
    IN  r17

\* the withdrawal's account changes without the custody check of the handler
WithdrawMove_no_custody_check(run, req) ==
    LET ext_amount == req.ext_amount
        r9 == Require(run, "negate", ext_amount # I64Min, "ArithmeticOverflow")
        withdrawal_amount_u64 == -ext_amount
        r10 == Require(r9, "custody", TRUE, "InsufficientFundsForWithdrawal")
        r11 == TransferIfPositive(r10, "fee_transfer", "reserve_a", "fee_a", req.fee)
        r12 == Require(r11, "owner", req.recipient_owner_ok, "Unauthorized")
        r13 == Transfer(r12, "payout", "reserve_a", "recipient_a", withdrawal_amount_u64)
        next_index_to_insert == tree.next_index
        r14 == AppendLeaf(r13, "append0", req.output_commitments[1])
        r15 == AppendLeaf(r14, "append1", req.output_commitments[2])
        r16 == Emit(r15, "emit_commitment", CommitmentData(next_index_to_insert, req))
        r17 == Emit(r16, "emit_event",
                    [type |-> "WithdrawEvent", amount |-> withdrawal_amount_u64])
    IN  r17

\* the withdrawal's account changes with the fee paid out to the recipient as well
WithdrawMove_payout_with_fee(run, req) ==
    LET ext_amount == req.ext_amount
        r9 == Require(run, "negate", ext_amount # I64Min, "ArithmeticOverflow")
        withdrawal_amount_u64 == -ext_amount
        r10 == Require(r9, "custody", bal.reserve_a >= withdrawal_amount_u64,
                       "InsufficientFundsForWithdrawal")
        r11 == TransferIfPositive(r10, "fee_transfer", "reserve_a", "fee_a", req.fee)
        r12 == Require(r11, "owner", req.recipient_owner_ok, "Unauthorized")
        r13 == Transfer(r12, "payout", "reserve_a", "recipient_a",
                       withdrawal_amount_u64 + req.fee)
        next_index_to_insert == tree.next_index
        r14 == AppendLeaf(r13, "append0", req.output_commitments[1])
        r15 == AppendLeaf(r14, "append1", req.output_commitments[2])
        r16 == Emit(r15, "emit_commitment", CommitmentData(next_index_to_insert, req))
        r17 == Emit(r16, "emit_event",
                    [type |-> "WithdrawEvent", amount |-> withdrawal_amount_u64])
    IN  r17

\* withdraw.rs handler, lines 157-278: custody check, payments, appends, records
WithdrawMove(run, req) ==
    LET ext_amount == req.ext_amount
        r9 == Require(run, "negate", ext_amount # I64Min, "ArithmeticOverflow")
        withdrawal_amount_u64 == -ext_amount
        r10 == Require(r9, "custody", bal.reserve_a >= withdrawal_amount_u64,
                       "InsufficientFundsForWithdrawal")
        r11 == TransferIfPositive(r10, "fee_transfer", "reserve_a", "fee_a", req.fee)
        r12 == Require(r11, "owner", req.recipient_owner_ok, "Unauthorized")
        r13 == Transfer(r12, "payout", "reserve_a", "recipient_a", withdrawal_amount_u64)
        next_index_to_insert == tree.next_index
        r14 == AppendLeaf(r13, "append0", req.output_commitments[1])
        r15 == AppendLeaf(r14, "append1", req.output_commitments[2])
        r16 == Emit(r15, "emit_commitment", CommitmentData(next_index_to_insert, req))
        r17 == Emit(r16, "emit_event",
                    [type |-> "WithdrawEvent", amount |-> withdrawal_amount_u64])
    IN  r17

\* instructions/withdraw.rs handler
WithdrawHandler(req) ==
    WithdrawMove(Register(WithdrawValidate(StartRun, req), "register", req), req)

\* swap.rs handler, lines 126-191: the checks made before any account changes
SwapValidate(run, req) ==
    LET ext_amount == req.ext_amount
        fee == req.fee
        r1 == Require(run, "root", is_known_root(tree, req.root), "UnknownRoot")
        r2 == Require(r1, "binding",
                      ext_data_hash_matches(
                          calculate_swap_ext_data_hash(ext_amount, req.ext_min_amount_out, fee),
                          req.ext_data_hash),
                      "ExtDataHashMismatch")
        r3 == Require(r2, "direction", ext_amount < 0, "InvalidExtAmount")
        r4 == Require(r3, "min_out", req.ext_min_amount_out >= 0, "InvalidExtAmount")
        r5 == Require(r4, "amount0",
                      check_public_amount(ext_amount, fee, req.public_amount0),
                      "InvalidPublicAmountData")
        r6 == Require(r5, "amount1",
                      check_public_amount(req.ext_min_amount_out, 0, req.public_amount1),
                      "InvalidPublicAmountData")
        r7 == RequireProof(r6, "proof", req)
    IN  r7

\* the swap settlement with the declared fee paid instead of the realized one
SwapMove_pays_declared_fee(run, req) ==
    LET ext_amount == req.ext_amount
        balance_before == bal.reserve_b
        r9 == Require(run, "payload", req.jupiter_swap_data # <<>>, "InvalidJupiterSwapData")
        r10 == InvokeExchange(r9, "exchange", req)
        balance_after == r10.bal.reserve_b
        r11 == Require(r10, "received", balance_after >= balance_before, "MathOverflow")
        actual_amount_received == balance_after - balance_before
        min_amount == req.ext_min_amount_out
        r12 == Require(r11, "slippage", actual_amount_received >= min_amount,
                       "InsufficientSwapOutput")
        r13 == TransferIfPositive(r12, "fee_transfer", "reserve_b", "fee_b", req.fee)
        next_index_to_insert == tree.next_index
        r14 == AppendLeaf(r13, "append0", req.output_commitments[1])
        r15 == AppendLeaf(r14, "append1", req.output_commitments[2])
        r16 == Emit(r15, "emit_commitment", CommitmentData(next_index_to_insert, req))
        r17 == Require(r16, "negate", ext_amount # I64Min, "ArithmeticOverflow")
        r18 == Emit(r17, "emit_event",
                    [type |-> "SwapEvent", input_amount |-> -ext_amount,
                     output_amount |-> actual_amount_received])
    IN  r18

\* the swap settlement that skips the exchange call when the payload is empty
SwapMove_empty_payload_is_noop(run, req) ==
    LET ext_amount == req.ext_amount
        balance_before == bal.reserve_b
        r9 == Require(run, "payload", TRUE, "InvalidJupiterSwapData")
        r10 == IF req.jupiter_swap_data = <<>> THEN r9
               ELSE InvokeExchange(r9, "exchange", req)
        balance_after == r10.bal.reserve_b
        r11 == Require(r10, "received", balance_after >= balance_before, "MathOverflow")
        actual_amount_received == balance_after - balance_before
        min_amount == req.ext_min_amount_out
        r12 == Require(r11, "slippage", actual_amount_received >= min_amount,
                       "InsufficientSwapOutput")
        calculated_fee == actual_amount_received - min_amount
        r13 == TransferIfPositive(r12, "fee_transfer", "reserve_b", "fee_b", calculated_fee)
        next_index_to_insert == tree.next_index
        r14 == AppendLeaf(r13, "append0", req.output_commitments[1])
        r15 == AppendLeaf(r14, "append1", req.output_commitments[2])
        r16 == Emit(r15, "emit_commitment", CommitmentData(next_index_to_insert, req))
        r17 == Require(r16, "negate", ext_amount # I64Min, "ArithmeticOverflow")
        r18 == Emit(r17, "emit_event",
                    [type |-> "SwapEvent", input_amount |-> -ext_amount,
                     output_amount |-> actual_amount_received])
    IN  r18

\* the swap settlement whose record reports the minimum instead of the amount received
SwapMove_reports_minimum(run, req) ==
    LET ext_amount == req.ext_amount
        balance_before == bal.reserve_b
        r9 == Require(run, "payload", req.jupiter_swap_data # <<>>, "InvalidJupiterSwapData")
        r10 == InvokeExchange(r9, "exchange", req)
        balance_after == r10.bal.reserve_b
        r11 == Require(r10, "received", balance_after >= balance_before, "MathOverflow")
        actual_amount_received == balance_after - balance_before
        min_amount == req.ext_min_amount_out
        r12 == Require(r11, "slippage", actual_amount_received >= min_amount,
                       "InsufficientSwapOutput")
        calculated_fee == actual_amount_received - min_amount
        r13 == TransferIfPositive(r12, "fee_transfer", "reserve_b", "fee_b", calculated_fee)
        next_index_to_insert == tree.next_index
        r14 == AppendLeaf(r13, "append0", req.output_commitments[1])
        r15 == AppendLeaf(r14, "append1", req.output_commitments[2])
        r16 == Emit(r15, "emit_commitment", CommitmentData(next_index_to_insert, req))
        r17 == Require(r16, "negate", ext_amount # I64Min, "ArithmeticOverflow")
        r18 == Emit(r17, "emit_event",
                    [type |-> "SwapEvent", input_amount |-> -ext_amount,
                     output_amount |-> min_amount])
    IN  r18

\* swap.rs handler, lines 207-309: exchange call, slippage check, fee, appends, records
SwapMove(run, req) ==
    LET ext_amount == req.ext_amount
        balance_before == bal.reserve_b
        r9 == Require(run, "payload", req.jupiter_swap_data # <<>>, "InvalidJupiterSwapData")
        r10 == InvokeExchange(r9, "exchange", req)
        balance_after == r10.bal.reserve_b
        r11 == Require(r10, "received", balance_after >= balance_before, "MathOverflow")
        actual_amount_received == balance_after - balance_before
        min_amount == req.ext_min_amount_out
        r12 == Require(r11, "slippage", actual_amount_received >= min_amount,
                       "InsufficientSwapOutput")
        calculated_fee == actual_amount_received - min_amount
        r13 == TransferIfPositive(r12, "fee_transfer", "reserve_b", "fee_b", calculated_fee)
        next_index_to_insert == tree.next_index
        r14 == AppendLeaf(r13, "append0", req.output_commitments[1])
        r15 == AppendLeaf(r14, "append1", req.output_commitments[2])
        r16 == Emit(r15, "emit_commitment", CommitmentData(next_index_to_insert, req))
        r17 == Require(r16, "negate", ext_amount # I64Min, "ArithmeticOverflow")
        r18 == Emit(r17, "emit_event",
                    [type |-> "SwapEvent", input_amount |-> -ext_amount,
                     output_amount |-> actual_amount_received])
    IN  r18

\* the swap handler with the nullifiers registered after the exchange call
SwapHandler_register_last(req) ==
    Register(SwapMove(SwapValidate(StartRun, req), req), "register", req)

\* instructions/swap.rs handler
SwapHandler(req) ==
    SwapMove(Register(SwapValidate(StartRun, req), "register", req), req)

-----------------------------------------------------------------------------
(* Transaction requests: a well-formed request of each kind, with up to     *)
(* MaxFaults of its fields changed                                          *)

RECURSIVE SubsetsUpTo(_, _)
\* the subsets of S with at most n elements
SubsetsUpTo(S, n) ==
    IF n = 0 THEN {{}}
    ELSE LET P == SubsetsUpTo(S, n - 1) IN P \cup {p \cup {f} : p \in P, f \in S}

\* a value no tree ever has as its root
BogusRoot == 0 - 7

\* the public amount a client encodes for (ext_amount, fee)
ClientPublicAmount(ext_amount, fee) ==
    IF ext_amount >= 0 THEN (ext_amount - fee) % FieldModulus
    ELSE (FieldModulus - (Abs(ext_amount) + fee)) % FieldModulus

\* the ext_data_hash a client puts into the proof for a digest: the canonical
\* big-endian encoding of the digest's field element
ClientExtDataHash(digest) == FrFromLeBytes(digest)

NoRequest == [kind |-> "none"]
NoOutcome == [err |-> "none", steps |-> <<>>]

\* whether the registry holds the identity of nullifier n
Registered(n) == derive_address(n, CANONICAL_ADDRESS_TREE) \in registry

\* the least n such that neither n nor n + 1 is registered
FreshNullifier ==
    CHOOSE n \in 1..(2 * Cardinality(registry) + 1) :
        /\ ~Registered(n) /\ ~Registered(n + 1)
        /\ \A m \in 1..(n - 1) : Registered(m) \/ Registered(m + 1)

CommonFaults ==
    {"root_bogus", "root_initial", "binding", "amount0", "amount1",
     "proof_invalid", "proof_malformed", "tree0", "tree0_unresolved", "tree1", "light_proof",
     "nullifiers_spent", "nullifiers_equal", "nullifiers_shifted"}

DepositAmounts ==
    { [ext |-> 1000, fee |-> 10, min_out |-> 0, base |-> TRUE],
      [ext |-> 1000, fee |-> 5, min_out |-> 0, base |-> FALSE],
      [ext |-> 5, fee |-> 10, min_out |-> 0, base |-> FALSE],
      [ext |-> 50, fee |-> 0, min_out |-> 0, base |-> FALSE],
      [ext |-> 0, fee |-> 0, min_out |-> 0, base |-> FALSE],
      [ext |-> -500, fee |-> 5, min_out |-> 0, base |-> FALSE],
      [ext |-> 2000, fee |-> 20, min_out |-> 0, base |-> FALSE],
      [ext |-> I64Min, fee |-> 0, min_out |-> 0, base |-> FALSE] }

WithdrawAmounts ==
    { [ext |-> -500, fee |-> 5, min_out |-> 0, base |-> TRUE],
      [ext |-> -500, fee |-> 0, min_out |-> 0, base |-> FALSE],
      [ext |-> -1000, fee |-> 10, min_out |-> 0, base |-> FALSE],
      [ext |-> -2000, fee |-> 20, min_out |-> 0, base |-> FALSE],
      [ext |-> 0, fee |-> 0, min_out |-> 0, base |-> FALSE],
      [ext |-> 1000, fee |-> 10, min_out |-> 0, base |-> FALSE],
      [ext |-> I64Min, fee |-> 0, min_out |-> 0, base |-> FALSE] }

SwapAmounts ==
    { [ext |-> -500, fee |-> 5, min_out |-> 900, base |-> TRUE],
      [ext |-> -500, fee |-> 5, min_out |-> 0, base |-> FALSE],
      [ext |-> -500, fee |-> 5, min_out |-> -1, base |-> FALSE],
      [ext |-> 500, fee |-> 5, min_out |-> 900, base |-> FALSE],
      [ext |-> I64Min, fee |-> 0, min_out |-> 900, base |-> FALSE] }

WithdrawFaults == CommonFaults \cup {"owner"}
SwapFaults ==
    CommonFaults \cup {"payload_empty", "exchange_fails", "received_low",
                       "received_exact", "outflow", "overspend"}

\* the fault sets a request may carry: one fewer when its amounts are already
\* not those of a well-formed request
DepositFaultSets ==
    [base \in BOOLEAN |-> SubsetsUpTo(CommonFaults, IF base THEN MaxFaults ELSE MaxFaults - 1)]
WithdrawFaultSets ==
    [base \in BOOLEAN |-> SubsetsUpTo(WithdrawFaults, IF base THEN MaxFaults ELSE MaxFaults - 1)]
SwapFaultSets ==
    [base \in BOOLEAN |-> SubsetsUpTo(SwapFaults, IF base THEN MaxFaults ELSE MaxFaults - 1)]

\* the request of the given kind and amounts with the fields in F changed
MakeRequest(kind, a, F) ==
    LET bound == IF kind = "swap"
                 THEN calculate_swap_ext_data_hash(a.ext, a.min_out, a.fee)
                 ELSE calculate_complete_ext_data_hash(a.ext, a.fee)
        amount0 == ClientPublicAmount(a.ext, a.fee)
        amount1 == IF kind = "swap" THEN ClientPublicAmount(a.min_out, 0) ELSE 0
        n == FreshNullifier
    IN  [ kind               |-> kind,
          root               |-> IF "root_bogus" \in F THEN BogusRoot
                                 ELSE IF "root_initial" \in F THEN InitialRoot
                                 ELSE CurrentRoot(tree),
          ext_amount         |-> a.ext,
          fee                |-> a.fee,
          ext_min_amount_out |-> a.min_out,
          ext_data_hash      |-> IF "binding" \in F
                                 THEN ClientExtDataHash(
                                          calculate_complete_ext_data_hash(a.ext, a.fee + 1))
                                 ELSE ClientExtDataHash(bound),
          public_amount0     |-> IF "amount0" \in F THEN amount0 + 1 ELSE amount0,
          public_amount1     |-> IF "amount1" \in F THEN amount1 + FieldModulus
                                                            + (IF kind = "swap" THEN 1 ELSE 0)
                                 ELSE amount1,
          proof              |-> [ decompress_ok |-> "proof_malformed" \notin F,
                                   verifier_ok   |-> TRUE,
                                   pairing       |-> IF "proof_invalid" \in F
                                                     THEN "false" ELSE "true" ],
          input_nullifiers   |-> IF "nullifiers_spent" \in F THEN <<1, 2>>
                                 ELSE IF "nullifiers_equal" \in F THEN <<n, n>>
                                 ELSE IF "nullifiers_shifted" \in F THEN <<n + 1, n + 2>>
                                 ELSE <<n, n + 1>>,
          output_commitments |-> <<1, 2>>,
          light              |-> [ tree0 |-> IF "tree0_unresolved" \in F THEN "unresolved"
                                             ELSE IF "tree0" \in F THEN "other"
                                             ELSE CANONICAL_ADDRESS_TREE,
                                   tree1 |-> IF "tree1" \in F THEN "other"
                                             ELSE CANONICAL_ADDRESS_TREE,
                                   proof_ok |-> "light_proof" \notin F ],
          recipient_owner_ok |-> "owner" \notin F,
          jupiter_swap_data  |-> IF "payload_empty" \in F THEN <<>> ELSE <<"route">>,
          exchange           |-> [ ok       |-> "exchange_fails" \notin F,
                                   spent    |-> IF "overspend" \in F THEN 1000
                                                ELSE Abs(a.ext),
                                   received |-> IF "outflow" \in F THEN -1
                                                ELSE IF "received_low" \in F THEN 880
                                                ELSE IF "received_exact" \in F THEN 900
                                                ELSE 950 ] ]

-----------------------------------------------------------------------------
(* The state machine *)

InitProgram ==
    /\ tree = InitTree
    /\ config = [deposit_fee_rate |-> 100, withdrawal_fee_rate |-> 100,
                 fee_error_margin |-> 500, authority |-> "authority"]
    /\ registry = {}
    /\ bal = [user_a |-> InitUserBalance, reserve_a |-> 0, reserve_b |-> 0,
              fee_a |-> 0, fee_b |-> 0, recipient_a |-> 0]
    /\ events = <<>>
    /\ phase = "idle"
    /\ pending = NoRequest
    /\ last = NoOutcome
    /\ completed = <<>>
    /\ rootsEver = <<InitialRoot>>

Init ==
    /\ InitProgram
    /\ feeProbe = NoRequest
    /\ amtProbe = NoRequest
    /\ bindProbe = NoRequest

\* a client submits a transaction
Submit(req) ==
    /\ phase = "idle"
    /\ phase' = "pending"
    /\ pending' = req
    /\ UNCHANGED <<tree, config, registry, bal, events, last, completed, rootsEver,
                   feeProbe, amtProbe, bindProbe>>

SubmitDeposit ==
    \E a \in DepositAmounts : \E F \in DepositFaultSets[a.base] :
        Submit(MakeRequest("deposit", a, F))

SubmitWithdraw ==
    \E a \in WithdrawAmounts : \E F \in WithdrawFaultSets[a.base] :
        Submit(MakeRequest("withdraw", a, F))

SubmitSwap ==
    \E a \in SwapAmounts : \E F \in SwapFaultSets[a.base] :
        Submit(MakeRequest("swap", a, F))

\* the instruction returns: a run that ended in an error leaves no effect (the
\* runtime discards the account changes of a failed instruction)
Finish(r) ==
    /\ phase' = "done"
    /\ last' = [err |-> r.err, steps |-> r.steps]
    /\ IF Running(r)
       THEN /\ tree' = r.tree
            /\ registry' = r.registry
            /\ bal' = r.bal
            /\ events' = r.events
            /\ completed' = Append(completed, pending)
            /\ rootsEver' = rootsEver \o r.new_roots
       ELSE UNCHANGED <<tree, registry, bal, events, completed, rootsEver>>
    /\ UNCHANGED <<config, pending, feeProbe, amtProbe, bindProbe>>

Deposit ==
    /\ phase = "pending" /\ pending.kind = "deposit"
    /\ \E r \in {DepositHandler(pending)} : Finish(r)

Withdraw ==
    /\ phase = "pending" /\ pending.kind = "withdraw"
    /\ \E r \in {WithdrawHandler(pending)} : Finish(r)

Swap ==
    /\ phase = "pending" /\ pending.kind = "swap"
    /\ \E r \in {SwapHandler(pending)} : Finish(r)

\* the client takes the outcome
Return ==
    /\ phase = "done"
    /\ phase' = "idle"
    /\ pending' = NoRequest
    /\ last' = NoOutcome
    /\ UNCHANGED <<tree, config, registry, bal, events, completed, rootsEver,
                   feeProbe, amtProbe, bindProbe>>

Next ==
    \/ SubmitDeposit
    \/ SubmitWithdraw
    \/ SubmitSwap
    \/ Deposit
    \/ Withdraw
    \/ Swap
    \/ Return

Spec == Init /\ [][Next]_vars

-----------------------------------------------------------------------------
(* validate_fee on its own: the arguments are drawn from the sets below, the  *)
(* single action calls the function and records what it returned.             *)

FeeExtAmounts ==
    {I64Min, -I64Max, -BPS, -500, -99, -1, 0, 1, 99, 100, 500, BPS, I64Max}
FeeAmounts == {0, 1, 4, 5, 94, 95, 100, U64Max}
FeeRates == {0, 100, BPS, U16Max}
FeeMargins == {0, 500, BPS, BPS + 1, U16Max}

InitFee ==
    /\ InitProgram
    /\ amtProbe = NoRequest
    /\ bindProbe = NoRequest
    /\ feeProbe \in [ext_amount : FeeExtAmounts, provided_fee : FeeAmounts,
                     deposit_fee_rate : FeeRates, withdrawal_fee_rate : FeeRates,
                     fee_error_margin : FeeMargins, out : {"none"}]

CallValidateFee ==
    /\ feeProbe.out = "none"
    /\ feeProbe' = [feeProbe EXCEPT !.out =
                       validate_fee(feeProbe.ext_amount, feeProbe.provided_fee,
                                    feeProbe.deposit_fee_rate,
                                    feeProbe.withdrawal_fee_rate,
                                    feeProbe.fee_error_margin)]
    /\ UNCHANGED <<tree, config, registry, bal, events, phase, pending, last,
                   completed, rootsEver, amtProbe, bindProbe>>

NextFee == CallValidateFee

SpecFee == InitFee /\ [][NextFee]_vars

-----------------------------------------------------------------------------
(* check_public_amount on its own: the 32-byte argument ranges over canonical *)
(* and non-canonical encodings of the residues a client could send.           *)

AmtExtAmounts == {I64Min, -I64Max, -1000, -500, -1, 0, 5, 10, 11, 1000, I64Max}
AmtFees == {0, 5, 10, 1000, U64Max}

AmtResidues(ext_amount, fee) ==
    {0, 1, 990, (ext_amount - fee) % FieldModulus,
     (ext_amount - fee + 1) % FieldModulus, (fee - ext_amount) % FieldModulus,
     (ext_amount + fee) % FieldModulus, (0 - ext_amount - fee) % FieldModulus}

AmtBytes(ext_amount, fee) ==
    {b \in {r + k * FieldModulus : r \in AmtResidues(ext_amount, fee), k \in 0..5} :
        b <= Bytes32Max}

AmtInputs ==
    UNION {{[ext_amount |-> e, fee |-> f, public_amount_bytes |-> b, out |-> "none"]
               : b \in AmtBytes(e, f)} : e \in AmtExtAmounts, f \in AmtFees}

InitAmt ==
    /\ InitProgram
    /\ feeProbe = NoRequest
    /\ bindProbe = NoRequest
    /\ amtProbe \in AmtInputs

CallCheckPublicAmount ==
    /\ amtProbe.out = "none"
    /\ amtProbe' = [amtProbe EXCEPT !.out =
                       IF check_public_amount(amtProbe.ext_amount, amtProbe.fee,
                                              amtProbe.public_amount_bytes)
                       THEN "true" ELSE "false"]
    /\ UNCHANGED <<tree, config, registry, bal, events, phase, pending, last,
                   completed, rootsEver, feeProbe, bindProbe>>

NextAmt == CallCheckPublicAmount

SpecAmt == InitAmt /\ [][NextAmt]_vars

-----------------------------------------------------------------------------
(* The binding comparison on its own: two requests' digests are compared with *)
(* the ext_data_hash of one proof.  The digests range over 32-byte strings     *)
(* whose little-endian values are small, equal modulo the field, or extreme.   *)

BindLeValues ==
    {0, 1, 5, 6, 5 + FieldModulus, 5 + 2 * FieldModulus, FieldModulus - 1,
     FieldModulus, Bytes32Max}
BindDigests == {ReverseBytes(v, Bytes32Bits) : v \in BindLeValues} \cup {5, 6}
BindExtDataHashes ==
    {0, 1, 5, 6, FieldModulus - 1, FieldModulus, 5 + FieldModulus, Bytes32Max}

InitBind ==
    /\ InitProgram
    /\ feeProbe = NoRequest
    /\ amtProbe = NoRequest
    /\ bindProbe \in [digest1 : BindDigests, digest2 : BindDigests,
                      ext_data_hash : BindExtDataHashes, out1 : {"none"}, out2 : {"none"}]

CallBinding ==
    /\ bindProbe.out1 = "none"
    /\ bindProbe' = [bindProbe EXCEPT
                        !.out1 = IF ext_data_hash_matches(bindProbe.digest1,
                                                          bindProbe.ext_data_hash)
                                 THEN "true" ELSE "false",
                        !.out2 = IF ext_data_hash_matches(bindProbe.digest2,
                                                          bindProbe.ext_data_hash)
                                 THEN "true" ELSE "false"]
    /\ UNCHANGED <<tree, config, registry, bal, events, phase, pending, last,
                   completed, rootsEver, feeProbe, amtProbe>>

NextBind == CallBinding

SpecBind == InitBind /\ [][NextBind]_vars

-----------------------------------------------------------------------------
(* The accumulator on its own: leaves are appended one at a time to the fresh *)
(* tree; rootsEver lists every root the tree has had, oldest first.           *)

TreeLeaves == {1, 2, 3}

AppendOne(leaf) ==
    /\ phase = "idle"
    /\ \E res \in {append(tree, leaf)} :
          /\ res.err = "Ok"
          /\ tree' = res.tree
          /\ rootsEver' = Append(rootsEver, CurrentRoot(res.tree))
    /\ UNCHANGED <<config, registry, bal, events, phase, pending, last, completed,
                   feeProbe, amtProbe, bindProbe>>

NextTree == \E leaf \in TreeLeaves : AppendOne(leaf)

SpecTree == Init /\ [][NextTree]_vars

-----------------------------------------------------------------------------
(* Properties of validate_fee (SpecFee)                                       *)

\* the outcome recorded for a finished call
FeeCalled == feeProbe # NoRequest /\ feeProbe.out # "none"

\* the rate validate_fee applies to the call under test
FeeRate ==
    IF feeProbe.ext_amount > 0 THEN feeProbe.deposit_fee_rate
    ELSE feeProbe.withdrawal_fee_rate

\* floor(|ext_amount| * rate / 10000) over the unbounded integers
ExactExpectedFee == (Abs(feeProbe.ext_amount) * FeeRate) \div BPS

\* floor(expected * (10000 - margin) / 10000) over the unbounded integers
ExactMinAcceptableFee ==
    (ExactExpectedFee * (BPS - feeProbe.fee_error_margin)) \div BPS

\* rates and margin inside the range the configuration documents (0..10000)
FeeConfigDocumented ==
    /\ feeProbe.deposit_fee_rate <= BPS
    /\ feeProbe.withdrawal_fee_rate <= BPS
    /\ feeProbe.fee_error_margin <= BPS

\* C8 as stated: validate_fee accepts exactly when the provided fee reaches
\* floor(floor(|ext_amount| * rate / 10000) * (10000 - margin) / 10000), for
\* every ext_amount (rates and margin already limited to the documented range).
C8_AcceptsIffFeeReachesFloor ==
    (FeeCalled /\ FeeConfigDocumented) =>
        ((feeProbe.out = "Ok") <=> (feeProbe.provided_fee >= ExactMinAcceptableFee))

\* C8 amended: for rates and margin in 0..10000 and ext_amount other than the
\* signed minimum, validate_fee accepts exactly when the provided fee reaches
\* floor(floor(|ext_amount| * rate / 10000) * (10000 - margin) / 10000) and
\* otherwise answers InvalidFeeAmount; it accepts every fee when ext_amount = 0;
\* at the signed minimum it answers ArithmeticOverflow whatever the fee.  With
\* deposit rate 100, margin 500 and ext_amount 10000 it accepts 95, rejects 94.
C8_AcceptsIffFeeReachesFloorExceptMin ==
    (FeeCalled /\ FeeConfigDocumented) =>
        /\ feeProbe.ext_amount = I64Min => feeProbe.out = "ArithmeticOverflow"
        /\ feeProbe.ext_amount # I64Min =>
              feeProbe.out = IF feeProbe.provided_fee >= ExactMinAcceptableFee
                             THEN "Ok" ELSE "InvalidFeeAmount"
        /\ feeProbe.ext_amount = 0 => feeProbe.out = "Ok"
        /\ (feeProbe.ext_amount = BPS /\ feeProbe.deposit_fee_rate = 100
               /\ feeProbe.fee_error_margin = 500) =>
              /\ feeProbe.provided_fee = 95 => feeProbe.out = "Ok"
              /\ feeProbe.provided_fee = 94 => feeProbe.out = "InvalidFeeAmount"

\* the fee-floor example was run: the call with fee 95 returned Ok
C8_Witness ==
    /\ FeeCalled
    /\ feeProbe.ext_amount = BPS /\ feeProbe.deposit_fee_rate = 100
    /\ feeProbe.fee_error_margin = 500 /\ feeProbe.provided_fee = 95
    /\ feeProbe.out = "Ok"

\* C9: for every ext_amount and every u16 rate and margin, validate_fee either
\* answers ArithmeticOverflow or its expected fee and minimum acceptable fee
\* equal the unbounded-integer formula (nothing is lost in the narrowing).
C9_NoSilentTruncation ==
    (FeeCalled /\ feeProbe.ext_amount # 0) =>
        \/ feeProbe.out = "ArithmeticOverflow"
        \/ /\ ExpectedFee(Abs(feeProbe.ext_amount), FeeRate) = ExactExpectedFee
           /\ MinAcceptableFee(ExpectedFee(Abs(feeProbe.ext_amount), FeeRate),
                               feeProbe.fee_error_margin)
                 = IF ExactExpectedFee > 0 THEN ExactMinAcceptableFee ELSE 0

-----------------------------------------------------------------------------
(* Properties of check_public_amount (SpecAmt)                                *)

AmtCalled == amtProbe # NoRequest /\ amtProbe.out # "none"

\* C10: for ext_amount >= 0, check_public_amount rejects whatever the bytes
\* when ext_amount <= fee, and otherwise accepts exactly when the bytes, read
\* big-endian and reduced modulo the field, equal ext_amount - fee; (1000, 10)
\* is accepted only for an encoding of 990 and (5, 10) is always rejected.
C10_DepositAmountMinusFee ==
    (AmtCalled /\ amtProbe.ext_amount >= 0) =>
        /\ (amtProbe.out = "true") <=>
              /\ amtProbe.ext_amount > amtProbe.fee
              /\ amtProbe.public_amount_bytes % FieldModulus
                    = amtProbe.ext_amount - amtProbe.fee
        /\ (amtProbe.ext_amount = 1000 /\ amtProbe.fee = 10) =>
              ((amtProbe.out = "true")
                  <=> (amtProbe.public_amount_bytes % FieldModulus = 990))
        /\ (amtProbe.ext_amount = 5 /\ amtProbe.fee = 10) => amtProbe.out = "false"

\* (1000, 10) was accepted for a non-canonical encoding of 990
C10_Witness ==
    /\ AmtCalled
    /\ amtProbe.ext_amount = 1000 /\ amtProbe.fee = 10
    /\ amtProbe.public_amount_bytes = 990 + FieldModulus
    /\ amtProbe.out = "true"

-----------------------------------------------------------------------------
(* Properties of the root history (SpecTree)                                  *)

\* number of appends made so far
Appends == Len(rootsEver) - 1

\* the current root and the n roots that preceded it
LastRoots(n) ==
    {rootsEver[j] : j \in (Len(rootsEver) - Min(n, Appends))..Len(rootsEver)}

\* the values is_known_root is asked about: every root the tree has had and a
\* value that never was one
RootProbes == {rootsEver[j] : j \in 1..Len(rootsEver)} \cup {BogusRoot}

\* C2 as stated: after N appends is_known_root(r) holds exactly for the
\* current root and the last min(N, K) roots that preceded it.
C2_WindowOfKPriorRoots ==
    \A r \in RootProbes \ {FillerRoot} :
        is_known_root(tree, r) <=> r \in LastRoots(RootHistorySize)

\* C2 amended: after N appends to a fresh tree with ring size K, for every
\* value r other than the filler of unwritten slots, is_known_root(r) holds
\* exactly when r is the current root or one of the last min(N, K - 1) roots
\* that preceded it: the ring holds the current root too.
C2_WindowOfKMinusOnePriorRoots ==
    \A r \in RootProbes \ {FillerRoot} :
        is_known_root(tree, r) <=> r \in LastRoots(RootHistorySize - 1)

\* at least K appends were made: the K-th root before the current one has
\* left the window, the one after it is still known
C2_Witness ==
    /\ Appends >= RootHistorySize
    /\ ~is_known_root(tree, rootsEver[Len(rootsEver) - RootHistorySize])
    /\ is_known_root(tree, rootsEver[Len(rootsEver) - RootHistorySize + 1])

-----------------------------------------------------------------------------
(* Properties of the transactions (Spec)                                      *)

Range(seq) == {seq[i] : i \in 1..Len(seq)}
IsPrefix(a, b) == Len(a) <= Len(b) /\ a = SubSeq(b, 1, Len(a))
\* the steps of a run that belong to a given order, in the order they ran
Project(steps, order) == SelectSeq(steps, LAMBDA x : x \in Range(order))
\* position of a step in the steps run (0 when it did not run)
StepIndex(steps, x) ==
    IF x \in Range(steps) THEN CHOOSE i \in 1..Len(steps) : steps[i] = x ELSE 0

Executed == phase = "done"
Rejected == phase = "done" /\ last.err # "Ok"
\* the transactions completed before the executed one
Earlier ==
    1..(Len(completed) - (IF Executed /\ last.err = "Ok" THEN 1 ELSE 0))
\* the executed request carries a nullifier an earlier completed one registered
SharesWithEarlier ==
    \E i \in Earlier : \E p, q \in 1..2 :
        completed[i].input_nullifiers[p] = pending.input_nullifiers[q]

\* C1: each nullifier is registered at most once: no two completed
\* transactions (and no two inputs of one) carry the same nullifier, the
\* registry holds exactly the identities of the completed transactions'
\* nullifiers, a transaction carrying a nullifier an earlier completed one
\* registered is rejected, and a rejection for a taken nullifier means the
\* other transaction carrying it did complete.
C1_NullifierRegisteredOnce ==
    /\ \A i, j \in 1..Len(completed) : \A p, q \in 1..2 :
          (<<i, p>> # <<j, q>>) =>
              completed[i].input_nullifiers[p] # completed[j].input_nullifiers[q]
    /\ registry = {derive_address(completed[i].input_nullifiers[p], CANONICAL_ADDRESS_TREE)
                      : i \in 1..Len(completed), p \in 1..2}
    /\ (Executed /\ SharesWithEarlier) => last.err # "Ok"
    /\ (Rejected /\ last.err = "LightProtocolError" /\ pending.light.proof_ok
           /\ pending.input_nullifiers[1] # pending.input_nullifiers[2])
          => SharesWithEarlier

\* a request that passed every check was rejected at registration because its
\* nullifier belongs to a completed transaction
C1_Witness ==
    /\ Rejected /\ last.err = "LightProtocolError"
    /\ last.steps[Len(last.steps)] = "register"
    /\ pending.light.proof_ok
    /\ Len(completed) >= 1
    /\ pending.input_nullifiers[1] = completed[1].input_nullifiers[1]

\* C3: next_index grows by exactly 2 in each completed transaction, is left
\* unchanged by each rejected one, and never exceeds 2^D.
C3_NextIndexByTwo ==
    [][ /\ (phase = "pending" /\ phase' = "done") =>
              tree'.next_index = tree.next_index + (IF last'.err = "Ok" THEN 2 ELSE 0)
        /\ phase # "pending" => tree'.next_index = tree.next_index
        /\ tree'.next_index <= TreeCapacity ]_vars

\* the tree was filled by completed transactions and a further one rejected
C3_Witness ==
    /\ Rejected /\ last.err = "MerkleTreeFull"
    /\ tree.next_index = TreeCapacity
    /\ Len(completed) * 2 = TreeCapacity

\* the checks each handler makes on the request before it registers nullifiers
ValidationOrder(kind) ==
    IF kind = "deposit"
    THEN <<"root", "binding", "amount0", "amount1", "fee", "proof", "direction", "limit">>
    ELSE IF kind = "withdraw"
    THEN <<"root", "binding", "amount0", "amount1", "fee", "proof", "direction">>
    ELSE <<"root", "binding", "direction", "min_out", "amount0", "amount1", "proof">>

\* C4 as stated: once nullifier registration has succeeded no later step of
\* the transaction fails (so a failed transaction needs no rollback).
C4_NothingFailsAfterRegistration ==
    Rejected => last.steps[Len(last.steps)] = "register"
                   \/ "register" \notin Range(last.steps)

\* C4 amended: every check of the request (root, binding, public amounts,
\* fee, proof, direction, deposit limit) runs before nullifier registration,
\* so a request failing one of them registers nothing; steps after the
\* registration can still fail, and a failed transaction leaves no registered
\* nullifier, moved value, appended leaf or record because its effects are
\* discarded as a whole.
C4_ChecksBeforeRegistration ==
    [][ (phase = "pending" /\ phase' = "done") =>
           /\ "register" \in Range(last'.steps) =>
                 SubSeq(last'.steps, 1, StepIndex(last'.steps, "register") - 1)
                    = ValidationOrder(pending.kind)
           /\ last'.err # "Ok" => UNCHANGED <<tree, registry, bal, events>> ]_vars

\* a withdrawal registered its nullifiers, then failed the custody check, and
\* the registry does not hold its nullifiers
C4_Witness ==
    /\ Rejected /\ pending.kind = "withdraw"
    /\ last.err = "InsufficientFundsForWithdrawal"
    /\ "register" \in Range(last.steps)
    /\ derive_address(pending.input_nullifiers[1], CANONICAL_ADDRESS_TREE) \notin registry

\* the first k steps of an order as a run shows them: a fee payment is made
\* only when the fee is positive
Ran(order, k, fee) ==
    SelectSeq(SubSeq(order, 1, k), LAMBDA x : x # "fee_transfer" \/ fee > 0)

DepositOrder ==
    <<"root", "binding", "amount0", "amount1", "fee", "proof", "direction", "limit",
      "register", "transfer", "fee_transfer", "append0", "append1",
      "emit_commitment", "emit_event">>

\* what a step of the deposit order answers for the executed request when the
\* steps before it have passed, told from the request and the accounts alone
DepositCheck(x) ==
    LET req == pending
    IN  CASE x = "root" ->
                 IF is_known_root(tree, req.root) THEN "Ok" ELSE "UnknownRoot"
          [] x = "binding" ->
                 IF ext_data_hash_matches(
                        calculate_complete_ext_data_hash(req.ext_amount, req.fee),
                        req.ext_data_hash)
                 THEN "Ok" ELSE "ExtDataHashMismatch"
          [] x = "amount0" ->
                 IF check_public_amount(req.ext_amount, req.fee, req.public_amount0)
                 THEN "Ok" ELSE "InvalidPublicAmountData"
          [] x = "amount1" ->
                 IF req.public_amount1 = 0 THEN "Ok" ELSE "InvalidPublicAmountData"
          [] x = "fee" ->
                 validate_fee(req.ext_amount, req.fee, config.deposit_fee_rate,
                              config.withdrawal_fee_rate, config.fee_error_margin)
          [] x = "proof" ->
                 IF ~req.proof.decompress_ok THEN "Panic"
                 ELSE IF req.proof.verifier_ok /\ req.proof.pairing = "true" THEN "Ok"
                 ELSE "InvalidProof"
          [] x = "direction" ->
                 IF req.ext_amount > 0 THEN "Ok" ELSE "InvalidExtAmount"
          [] x = "limit" ->
                 IF req.ext_amount <= tree.max_deposit_amount THEN "Ok"
                 ELSE "DepositLimitExceeded"
          [] x = "register" ->
                 create_light_nullifiers(registry, req.input_nullifiers, req.light).err
          [] x = "transfer" ->
                 IF bal.user_a >= req.ext_amount THEN "Ok" ELSE "TokenInsufficientFunds"
          [] x = "fee_transfer" ->
                 IF req.fee = 0 \/ bal.user_a - req.ext_amount >= req.fee THEN "Ok"
                 ELSE "TokenInsufficientFunds"
          [] x = "append0" ->
                 IF tree.next_index < TreeCapacity THEN "Ok" ELSE "MerkleTreeFull"
          [] x = "append1" ->
                 IF tree.next_index + 1 < TreeCapacity THEN "Ok" ELSE "MerkleTreeFull"
          [] OTHER -> "Ok"

\* C5: Deposit runs its checks and effects in the order root known, binding,
\* leg-0 amount, leg-1 zero, fee minimum, proof, ext_amount > 0, deposit
\* limit, nullifier registration, value transfers, two appends, record
\* emission: a completed deposit ran them all in this order, a rejected one
\* ran them up to the first failing one, returned that one's error and ran
\* nothing after it.
C5_DepositOrder ==
    (Executed /\ pending.kind = "deposit") =>
        IF last.err = "Ok"
        THEN last.steps = Ran(DepositOrder, Len(DepositOrder), pending.fee)
        ELSE \E k \in 1..Len(DepositOrder) :
                /\ \A j \in 1..(k - 1) : DepositCheck(DepositOrder[j]) = "Ok"
                /\ DepositCheck(DepositOrder[k]) = last.err
                /\ last.steps = Ran(DepositOrder, k, pending.fee)

\* a deposit whose binding and proof are both wrong was rejected for the binding
C5_Witness ==
    /\ Rejected /\ pending.kind = "deposit"
    /\ last.err = "ExtDataHashMismatch"
    /\ pending.proof.pairing = "false"
    /\ last.steps = <<"root", "binding">>

WithdrawOrder ==
    <<"root", "binding", "amount0", "amount1", "fee", "proof", "direction",
      "register", "custody", "fee_transfer", "payout", "append0", "append1",
      "emit_commitment", "emit_event">>

\* C6: Withdraw runs the steps root known, binding, leg-0 amount, leg-1 zero,
\* fee minimum, proof, ext_amount < 0, nullifier registration, custody-balance
\* check, fee payment, payout, two appends, record emission in this order; the
\* fee is paid before the payout and no value leaves custody before the
\* nullifiers are registered.
C6_WithdrawOrder ==
    (Executed /\ pending.kind = "withdraw") =>
        LET ran == Project(last.steps, WithdrawOrder)
            full == Ran(WithdrawOrder, Len(WithdrawOrder), pending.fee)
        IN  /\ IsPrefix(ran, full)
            /\ last.err = "Ok" => ran = full
            /\ \A x \in {"fee_transfer", "payout"} :
                  x \in Range(last.steps) =>
                      /\ "register" \in Range(last.steps)
                      /\ StepIndex(last.steps, "register") < StepIndex(last.steps, x)
            /\ ("payout" \in Range(last.steps) /\ pending.fee > 0) =>
                  /\ "fee_transfer" \in Range(last.steps)
                  /\ StepIndex(last.steps, "fee_transfer")
                        < StepIndex(last.steps, "payout")

\* a withdrawal with a positive fee completed
C6_Witness ==
    /\ Executed /\ pending.kind = "withdraw" /\ last.err = "Ok"
    /\ pending.fee > 0
    /\ bal.fee_a >= pending.fee /\ bal.recipient_a >= -pending.ext_amount

SwapOrder ==
    <<"root", "binding", "direction", "min_out", "amount0", "amount1", "proof",
      "register", "exchange", "slippage", "fee_transfer", "append0", "append1",
      "emit_commitment", "emit_event">>

\* the executed swap request passes every check made on the request
SwapRequestValid ==
    LET req == pending
    IN  /\ is_known_root(tree, req.root)
        /\ ext_data_hash_matches(
               calculate_swap_ext_data_hash(req.ext_amount, req.ext_min_amount_out, req.fee),
               req.ext_data_hash)
        /\ req.ext_amount < 0 /\ req.ext_min_amount_out >= 0
        /\ check_public_amount(req.ext_amount, req.fee, req.public_amount0)
        /\ check_public_amount(req.ext_min_amount_out, 0, req.public_amount1)
        /\ verify_compressed_proof(req.proof) = "true"

\* C7: Swap runs the steps root known, binding, direction checks, leg-0
\* amount, leg-1 amount, proof, nullifier registration, exchange call,
\* slippage check, realized-fee payment, two appends, record emission in this
\* order, and the exchange is never invoked for a request that fails a check
\* or whose nullifier registration fails.
C7_SwapOrder ==
    (Executed /\ pending.kind = "swap") =>
        LET ran == Project(last.steps, SwapOrder)
            realized_fee == pending.exchange.received - pending.ext_min_amount_out
            full == Ran(SwapOrder, Len(SwapOrder), realized_fee)
        IN  /\ IsPrefix(ran, full)
            /\ last.err = "Ok" => ran = full
            /\ "exchange" \in Range(last.steps) =>
                  /\ "register" \in Range(last.steps)
                  /\ StepIndex(last.steps, "register") < StepIndex(last.steps, "exchange")
            /\ (Rejected /\ "exchange" \in Range(last.steps)) =>
                  /\ SwapRequestValid
                  /\ create_light_nullifiers(registry, pending.input_nullifiers,
                                             pending.light).err = "Ok"

\* a swap that received more than the minimum completed and paid the
\* realized fee
C7_Witness ==
    /\ Executed /\ pending.kind = "swap" /\ last.err = "Ok"
    /\ "fee_transfer" \in Range(last.steps)
    /\ bal.fee_b = pending.exchange.received - pending.ext_min_amount_out

-----------------------------------------------------------------------------
(* Further properties of check_public_amount (SpecAmt)                        *)

\* C11: for every negative ext_amount and every fee, check_public_amount
\* rejects when ext_amount is the signed minimum, and otherwise accepts exactly
\* when the bytes reduced modulo the field equal modulus - (|ext_amount| + fee);
\* (-500, 5) is accepted only for an encoding of modulus - 505.
C11_WithdrawAmountPlusFee ==
    (AmtCalled /\ amtProbe.ext_amount < 0) =>
        /\ amtProbe.ext_amount = I64Min => amtProbe.out = "false"
        /\ amtProbe.ext_amount # I64Min =>
              ((amtProbe.out = "true")
                  <=> (amtProbe.public_amount_bytes % FieldModulus
                          = FieldModulus - (Abs(amtProbe.ext_amount) + amtProbe.fee)))
        /\ (amtProbe.ext_amount = -500 /\ amtProbe.fee = 5) =>
              ((amtProbe.out = "true")
                  <=> (amtProbe.public_amount_bytes % FieldModulus = FieldModulus - 505))

\* (-500, 5) was accepted for a non-canonical encoding of modulus - 505
C11_Witness ==
    /\ AmtCalled
    /\ amtProbe.ext_amount = -500 /\ amtProbe.fee = 5
    /\ amtProbe.public_amount_bytes = 2 * FieldModulus - 505
    /\ amtProbe.out = "true"

-----------------------------------------------------------------------------
(* Further properties of the transactions (Spec)                              *)

\* the last step the executed transaction ran
LastStep == last.steps[Len(last.steps)]

\* C12: a deposit or withdraw completes only if public_amount1 is the exact
\* all-zero encoding: any other value, a non-zero string that reduces to zero
\* modulo the field included, is rejected, at the leg-1 check with
\* InvalidPublicAmountData when the checks before it pass; a swap applies
\* check_public_amount to leg 1 with ext_min_amount_out and fee 0.
C12_LegOneExactZero ==
    /\ (Executed /\ pending.kind \in {"deposit", "withdraw"}
           /\ pending.public_amount1 # 0) =>
          /\ last.err # "Ok"
          /\ "amount1" \in Range(last.steps) =>
                LastStep = "amount1" /\ last.err = "InvalidPublicAmountData"
    /\ (Executed /\ pending.kind \in {"deposit", "withdraw"}
           /\ pending.public_amount1 = 0 /\ "amount1" \in Range(last.steps)) =>
          LastStep # "amount1"
    /\ (Executed /\ pending.kind = "swap" /\ "amount1" \in Range(last.steps)) =>
          ((LastStep = "amount1" /\ last.err = "InvalidPublicAmountData")
              <=> ~check_public_amount(pending.ext_min_amount_out, 0,
                                       pending.public_amount1))

\* a deposit whose leg 1 is the modulus itself (zero after reduction) was
\* rejected at the leg-1 check
C12_Witness ==
    /\ Rejected /\ pending.kind = "deposit"
    /\ pending.public_amount1 = FieldModulus
    /\ LastStep = "amount1" /\ last.err = "InvalidPublicAmountData"

-----------------------------------------------------------------------------
(* Properties of the ext-data binding (SpecBind)                              *)

BindCalled == bindProbe # NoRequest /\ bindProbe.out1 # "none"

\* the field element of a digest: its digits in little-endian order, reduced
BindResidue(digest) == ReverseBytes(digest, Bytes32Bits) % FieldModulus

\* C13 as stated: with a collision-free hash two requests that differ have
\* different digests, and for one proof no two requests with different digests
\* both pass the binding check.
C13_DistinctDigestsNeverBothPass ==
    (BindCalled /\ bindProbe.digest1 # bindProbe.digest2) =>
        ~(bindProbe.out1 = "true" /\ bindProbe.out2 = "true")

\* C13 amended: the binding check passes exactly when the digest, read
\* little-endian and reduced into the field, equals the proof's ext_data_hash
\* read big-endian and reduced into the field; so for one proof two requests
\* both pass exactly when their digests' field elements both equal the
\* proof's, which digests that differ by a multiple of the modulus do.
C13_BindingComparesFieldElements ==
    BindCalled =>
        /\ (bindProbe.out1 = "true")
              <=> (BindResidue(bindProbe.digest1)
                      = bindProbe.ext_data_hash % FieldModulus)
        /\ (bindProbe.out2 = "true")
              <=> (BindResidue(bindProbe.digest2)
                      = bindProbe.ext_data_hash % FieldModulus)
        /\ (bindProbe.out1 = "true" /\ bindProbe.out2 = "false")
              => BindResidue(bindProbe.digest1) # BindResidue(bindProbe.digest2)

\* two different digests whose little-endian values differ by the modulus both
\* passed against the same ext_data_hash
C13_Witness ==
    /\ BindCalled
    /\ bindProbe.digest1 = ReverseBytes(5, Bytes32Bits)
    /\ bindProbe.digest2 = ReverseBytes(5 + FieldModulus, Bytes32Bits)
    /\ bindProbe.ext_data_hash = 5
    /\ bindProbe.out1 = "true" /\ bindProbe.out2 = "true"

-----------------------------------------------------------------------------
(* Properties of the proof check and of the swap settlement (Spec)            *)

\* C14: verify_compressed_proof always returns a boolean: for every proof,
\* one whose elements fail to decompress included, the proof step of a
\* transaction ends with true or with false and InvalidProof, never with a
\* panic.
C14_ProofCheckReturnsBoolean ==
    (Executed /\ "proof" \in Range(last.steps)) =>
        /\ verify_compressed_proof(pending.proof) \in {"true", "false"}
        /\ last.err # "Panic"
        /\ verify_compressed_proof(pending.proof) = "false" =>
              (LastStep = "proof" /\ last.err = "InvalidProof")

\* the executed swap's exchange call returned without an error
ExchangeReturned(outcome) ==
    /\ "exchange" \in Range(outcome.steps)
    /\ outcome.steps[Len(outcome.steps)] = "exchange" => outcome.err = "Ok"

\* C15 as stated: a swap whose exchange call returned is rejected with
\* InsufficientSwapOutput exactly when the balance difference received is
\* below ext_min_amount_out.
C15_SlippageExactlyWhenBelowMinimum ==
    (Executed /\ pending.kind = "swap" /\ ExchangeReturned(last)) =>
        ((last.err = "InsufficientSwapOutput")
            <=> (pending.exchange.received < pending.ext_min_amount_out))

\* C15 amended: received is the output custody balance after the exchange
\* call minus the balance before it.  If the balance fell the swap is rejected
\* with MathOverflow; otherwise it is rejected with InsufficientSwapOutput
\* exactly when received < ext_min_amount_out, and a swap that completes has
\* paid received - ext_min_amount_out to the fee recipient and kept
\* ext_min_amount_out in custody, whatever the declared fee is.
C15_RealizedFee ==
    [][ (phase = "pending" /\ phase' = "done" /\ pending.kind = "swap"
            /\ ExchangeReturned(last')) =>
          LET received == pending.exchange.received
              min_amount == pending.ext_min_amount_out
              final == last'.steps[Len(last'.steps)]
          IN  /\ received < 0 => (last'.err = "MathOverflow" /\ final = "received")
              /\ (received >= 0 /\ received < min_amount) =>
                    (last'.err = "InsufficientSwapOutput" /\ final = "slippage")
              /\ received >= min_amount =>
                    /\ last'.err \notin {"MathOverflow", "InsufficientSwapOutput"}
                    /\ last'.err = "Ok" =>
                          /\ bal'.fee_b = bal.fee_b + (received - min_amount)
                          /\ bal'.reserve_b = bal.reserve_b + min_amount ]_vars

\* with minimum 900 a swap that received 950 completed and paid a fee of 50,
\* which is not the declared fee
C15_Witness ==
    /\ Executed /\ pending.kind = "swap" /\ last.err = "Ok"
    /\ pending.ext_min_amount_out = 900 /\ pending.exchange.received = 950
    /\ bal.fee_b = 50 /\ pending.fee # 50

----------------------------------------------------------------------------
(* Properties of the accumulator under rejected transactions (Spec)        *)

\* the steps of a run that returned before its last one
StepsPassed(outcome) == Range(SubSeq(outcome.steps, 1, Len(outcome.steps) - 1))

\* C16: a rejected deposit, withdraw or swap leaves next_index, filled_subtrees
\* and root_history as they were and emits no record; the handler itself has
\* appended no commitment and emitted no record when it fails, and the
\* account changes of a failed instruction are discarded.
C16_RejectedLeavesAccumulator ==
    [][ (phase = "pending" /\ phase' = "done" /\ last'.err # "Ok") =>
           /\ tree'.next_index = tree.next_index
           /\ tree'.filled_subtrees = tree.filled_subtrees
           /\ tree'.root_history = tree.root_history
           /\ tree' = tree
           /\ events' = events
           /\ StepsPassed(last') \cap
                 {"append0", "append1", "emit_commitment", "emit_event"} = {} ]_vars

\* a transaction was rejected after its nullifiers were registered, with
\* commitments of earlier transactions in the accumulator
C16_Witness ==
    /\ Rejected /\ "register" \in StepsPassed(last)
    /\ tree.next_index > 0 /\ events # <<>>
    /\ tree.next_index = 2 * Len(completed)

KnownRootProbes ==
    {tree.root_history[i] : i \in 1..RootHistorySize} \cup {FillerRoot, BogusRoot}

C19_NextIndexBelowCapacity == tree.next_index < TreeCapacity

\* C19 amended: in every reachable state next_index is the number of leaves
\* appended so far and next_index <= 2^D; it equals 2^D when the tree is full.
C19_NextIndexAtMostCapacity ==
    /\ tree.next_index = Appends
    /\ tree.next_index <= TreeCapacity
    /\ append(tree, ZeroLeaf).err = "MerkleTreeFull" <=> tree.next_index = TreeCapacity

\* the tree is full: the leaf at index 2^D - 1 was appended and a further
\* append fails
C19_Witness ==
    /\ tree.next_index = TreeCapacity
    /\ Appends = TreeCapacity
    /\ append(tree, ZeroLeaf).err = "MerkleTreeFull"

----------------------------------------------------------------------------
(* Properties of the nullifier pair (Spec)                                  *)

\* C20: a transaction whose two input nullifiers are equal never completes:
\* it is rejected no later than the nullifier registration, which refuses it
\* with LightProtocolError when both address trees are the canonical one, and
\* it moves no value, registers nothing and appends no commitment.
C20_EqualNullifiersRejected ==
    [][ (phase = "pending" /\ phase' = "done"
            /\ pending.input_nullifiers[1] = pending.input_nullifiers[2]) =>
           /\ last'.err # "Ok"
           /\ StepsPassed(last') \cap
                 {"register", "transfer", "fee_transfer", "payout", "exchange",
                  "append0", "append1"} = {}
           /\ "register" \in Range(last'.steps) =>
                 last'.err = (IF pending.light.tree0 = CANONICAL_ADDRESS_TREE
                                 /\ pending.light.tree1 = CANONICAL_ADDRESS_TREE
                              THEN "LightProtocolError"
                              ELSE create_light_nullifiers(registry,
                                       pending.input_nullifiers, pending.light).err)
           /\ UNCHANGED <<bal, registry, tree>> ]_vars

\* a transaction with equal nullifiers, neither of them registered before,
\* passed every check and was refused by the registration
C20_Witness ==
    /\ Rejected /\ LastStep = "register" /\ last.err = "LightProtocolError"
    /\ pending.input_nullifiers[1] = pending.input_nullifiers[2]
    /\ pending.light.proof_ok
    /\ derive_address(pending.input_nullifiers[1], pending.light.tree0) \notin registry

----------------------------------------------------------------------------
(* Properties of the withdrawal's custody check and of the direction and   *)
(* limit checks (Spec)                                                     *)

\* C21: a withdraw that reaches the custody check with a custody balance
\* below |ext_amount| is rejected there with InsufficientFundsForWithdrawal;
\* the check runs once, the handler returns, and neither the fee recipient
\* nor the recipient (nor any other account) receives anything.  A withdraw
\* whose custody balance covers |ext_amount| passes the check.
C21_InsufficientCustodyRejected ==
    [][ (phase = "pending" /\ phase' = "done" /\ pending.kind = "withdraw"
            /\ "custody" \in Range(last'.steps)) =>
           IF bal.reserve_a < -pending.ext_amount
           THEN /\ last'.err = "InsufficientFundsForWithdrawal"
                /\ last'.steps[Len(last'.steps)] = "custody"
                /\ Cardinality({i \in 1..Len(last'.steps) :
                                   last'.steps[i] = "custody"}) = 1
                /\ bal' = bal
                /\ completed' = completed
           ELSE "custody" \in StepsPassed(last') \/ last'.err = "Ok" ]_vars

\* a withdraw was rejected at the custody check: the pool holds less than the
\* amount asked for
C21_Witness ==
    /\ Rejected /\ pending.kind = "withdraw"
    /\ LastStep = "custody" /\ last.err = "InsufficientFundsForWithdrawal"
    /\ bal.reserve_a < -pending.ext_amount
    /\ bal.fee_a = 0 /\ bal.recipient_a = 0

\* the sign constraint of the executed request's kind
DirectionHolds ==
    IF pending.kind = "deposit" THEN pending.ext_amount > 0 ELSE pending.ext_amount < 0

----------------------------------------------------------------------------
(* Properties of the value moved by deposit and swap (Spec)                *)

\* C23: a completed deposit credits the pool custody account with ext_amount
\* and the fee recipient with fee, both taken from the payer, who is debited
\* ext_amount + fee; no other balance changes; the fee transfer is made
\* exactly when fee > 0; the transfers come after the nullifier registration
\* and before the first append.
C23_DepositMovesAmountAndFee ==
    [][ (phase = "pending" /\ phase' = "done" /\ pending.kind = "deposit"
            /\ last'.err = "Ok") =>
           /\ bal'.reserve_a = bal.reserve_a + pending.ext_amount
           /\ bal'.fee_a = bal.fee_a + pending.fee
           /\ bal'.user_a = bal.user_a - (pending.ext_amount + pending.fee)
           /\ bal' = [bal EXCEPT !.reserve_a = @ + pending.ext_amount,
                                 !.fee_a = @ + pending.fee,
                                 !.user_a = @ - (pending.ext_amount + pending.fee)]
           /\ "fee_transfer" \in Range(last'.steps) <=> pending.fee > 0
           /\ StepIndex(last'.steps, "register") < StepIndex(last'.steps, "transfer")
           /\ StepIndex(last'.steps, "transfer") < StepIndex(last'.steps, "append0")
           /\ pending.fee > 0 =>
                 /\ StepIndex(last'.steps, "transfer")
                       < StepIndex(last'.steps, "fee_transfer")
                 /\ StepIndex(last'.steps, "fee_transfer")
                       < StepIndex(last'.steps, "append0") ]_vars

\* two deposits completed, the first with a fee and the last without one
C23_Witness ==
    /\ Executed /\ last.err = "Ok" /\ pending.kind = "deposit"
    /\ pending.fee = 0 /\ "fee_transfer" \notin Range(last.steps)
    /\ Len(completed) = 2 /\ completed[1].kind = "deposit" /\ completed[1].fee > 0
    /\ bal.fee_a = completed[1].fee
    /\ bal.reserve_a = completed[1].ext_amount + pending.ext_amount

\* C24: a swap whose exchange instruction payload is empty never completes:
\* when it reaches the payload check it is rejected there with
\* InvalidJupiterSwapData, the exchange is not called, no balance changes (no
\* fee is paid), no commitment is appended and no record is emitted.
C24_EmptyPayloadRejected ==
    [][ (phase = "pending" /\ phase' = "done" /\ pending.kind = "swap"
            /\ pending.jupiter_swap_data = <<>>) =>
           /\ last'.err # "Ok"
           /\ "payload" \in Range(last'.steps) =>
                 /\ last'.steps[Len(last'.steps)] = "payload"
                 /\ last'.err = "InvalidJupiterSwapData"
           /\ "exchange" \notin Range(last'.steps)
           /\ bal' = bal /\ tree' = tree
           /\ events' = events ]_vars

\* a swap with an empty payload passed every check and the registration and
\* was rejected at the payload check
C24_Witness ==
    /\ Rejected /\ pending.kind = "swap" /\ pending.jupiter_swap_data = <<>>
    /\ LastStep = "payload" /\ last.err = "InvalidJupiterSwapData"
    /\ pending.ext_min_amount_out > 0
    /\ "register" \in StepsPassed(last)

----------------------------------------------------------------------------
(* Properties of the nullifier registration's errors and identities (Spec) *)

\* the error the registration returns when the registry call fails for a
\* reason other than an existing address (here: a validity proof it refuses)
AdapterFailureError ==
    create_light_nullifiers({}, <<1, 2>>,
        [tree0 |-> CANONICAL_ADDRESS_TREE, tree1 |-> CANONICAL_ADDRESS_TREE,
         proof_ok |-> FALSE]).err

\* the executed request names a nullifier whose address the registry holds,
\* with both address trees canonical and a validity proof the registry takes
NamesRegisteredNullifier ==
    /\ pending.light.tree0 = CANONICAL_ADDRESS_TREE
    /\ pending.light.tree1 = CANONICAL_ADDRESS_TREE
    /\ pending.light.proof_ok
    /\ \E i \in 1..2 :
          derive_address(pending.input_nullifiers[i], CANONICAL_ADDRESS_TREE) \in registry

\* C25: a transaction rejected at the registration because one of its
\* nullifiers is already registered is reported with an error kind different
\* from the one reported when the registry call fails for another reason.
C25_DoubleSpendDistinguishable ==
    (Rejected /\ LastStep = "register" /\ NamesRegisteredNullifier) =>
        last.err # AdapterFailureError

----------------------------------------------------------------------------
(* Properties of the emitted records (Spec)                                *)

\* the CommitmentData records emitted so far, in order
CommitmentRecords == SelectSeq(events, LAMBDA e : e.type = "CommitmentData")

\* the leaves the records say the tree holds: commitment0 at index,
\* commitment1 at index + 1
RecordedLeaf(i) ==
    LET holders == {k \in 1..Len(CommitmentRecords) :
                       i \in {CommitmentRecords[k].index, CommitmentRecords[k].index + 1}}
    IN  IF holders = {} THEN ZeroLeaf
        ELSE LET k == CHOOSE k \in holders : TRUE
             IN  IF i = CommitmentRecords[k].index THEN CommitmentRecords[k].commitment0
                 ELSE CommitmentRecords[k].commitment1

RECURSIVE RecordedNode(_, _)
\* the node at the given height and position of the tree over the recorded
\* leaves, computed from the leaves up
RecordedNode(level, i) ==
    IF level = 0 THEN RecordedLeaf(i)
    ELSE Hash(RecordedNode(level - 1, 2 * i), RecordedNode(level - 1, 2 * i + 1))

\* C26: each completed transaction has emitted exactly one CommitmentData
\* record, with the two commitments of its request and the value next_index
\* had before its appends as index; the indices are 0, 2, 4, ... in order, no
\* leaf index belongs to two commitments, and the tree's root is the root of
\* the tree that holds commitment0 at index and commitment1 at index + 1.
C26_CommitmentRecords ==
    /\ Len(CommitmentRecords) = Len(completed)
    /\ Len(events) = 2 * Len(completed)
    /\ \A k \in 1..Len(CommitmentRecords) :
          /\ events[2 * k - 1] = CommitmentRecords[k]
          /\ CommitmentRecords[k].index = 2 * (k - 1)
          /\ CommitmentRecords[k].commitment0 = completed[k].output_commitments[1]
          /\ CommitmentRecords[k].commitment1 = completed[k].output_commitments[2]
    /\ \A j, k \in 1..Len(CommitmentRecords) :
          j # k => {CommitmentRecords[j].index, CommitmentRecords[j].index + 1}
                     \cap {CommitmentRecords[k].index, CommitmentRecords[k].index + 1} = {}
    /\ tree.next_index = 2 * Len(CommitmentRecords)
    /\ CurrentRoot(tree) = RecordedNode(TreeDepth, 0)

\* two transactions completed: the second one's record has index 2
C26_Witness ==
    /\ Len(completed) = 2 /\ Len(CommitmentRecords) = 2
    /\ CommitmentRecords[1].index = 0 /\ CommitmentRecords[2].index = 2
    /\ tree.next_index = 4
    /\ CurrentRoot(tree) = RecordedNode(TreeDepth, 0)

----------------------------------------------------------------------------
(* Properties of the policy state (Spec)                                   *)

\* C28: a deposit, withdraw or swap, completed or rejected, leaves
\* deposit_fee_rate, withdrawal_fee_rate, fee_error_margin, the config
\* authority and max_deposit_amount as they were.
C28_PolicyUnchanged ==
    [][ (phase = "pending" /\ phase' = "done") =>
           /\ config'.deposit_fee_rate = config.deposit_fee_rate
           /\ config'.withdrawal_fee_rate = config.withdrawal_fee_rate
           /\ config'.fee_error_margin = config.fee_error_margin
           /\ config'.authority = config.authority
           /\ tree'.max_deposit_amount = tree.max_deposit_amount ]_vars

\* a transaction completed and wrote the tree account, and the policy is the
\* one set at initialisation
C28_Witness ==
    /\ Executed /\ last.err = "Ok" /\ tree.next_index > 0
    /\ tree.max_deposit_amount = InitMaxDeposit
    /\ config.deposit_fee_rate = 100 /\ config.withdrawal_fee_rate = 100
    /\ config.fee_error_margin = 500 /\ config.authority = "authority"

----------------------------------------------------------------------------
(* Properties of validate_fee under overpayment and small amounts (SpecFee) *)

\* the outcome of validate_fee for the call under test with another fee
FeeOutcomeWith(fee) ==
    validate_fee(feeProbe.ext_amount, fee, feeProbe.deposit_fee_rate,
                 feeProbe.withdrawal_fee_rate, feeProbe.fee_error_margin)

\* C29 as stated: a call that accepts a fee accepts every greater fee for the
\* same arguments, and whenever floor(|ext_amount| * rate / 10000) = 0 the
\* fee 0 is accepted.
C29_OverpaymentAndDustAccepted ==
    FeeCalled =>
        /\ feeProbe.out = "Ok" =>
              \A fee \in FeeAmounts : fee > feeProbe.provided_fee => FeeOutcomeWith(fee) = "Ok"
        /\ ExactExpectedFee = 0 => FeeOutcomeWith(0) = "Ok"

\* C29 amended: a call that accepts a fee accepts every greater fee for the
\* same arguments; whenever floor(|ext_amount| * rate / 10000) = 0 and
\* ext_amount is not the minimum of its type the fee 0 is accepted, even with
\* a non-zero rate; for the minimum ext_amount every fee is refused with
\* ArithmeticOverflow.
C29_OverpaymentAndDustAcceptedExceptMin ==
    FeeCalled =>
        /\ feeProbe.out = "Ok" =>
              \A fee \in FeeAmounts : fee > feeProbe.provided_fee => FeeOutcomeWith(fee) = "Ok"
        /\ (ExactExpectedFee = 0 /\ feeProbe.ext_amount # I64Min) => FeeOutcomeWith(0) = "Ok"
        /\ feeProbe.ext_amount = I64Min =>
              \A fee \in FeeAmounts : FeeOutcomeWith(fee) = "ArithmeticOverflow"

\* the fee 0 was accepted for an amount too small for the non-zero rate, and
\* the largest fee is accepted for the same arguments
C29_Witness ==
    /\ FeeCalled /\ feeProbe.out = "Ok"
    /\ feeProbe.provided_fee = 0 /\ FeeRate > 0
    /\ feeProbe.ext_amount \notin {0, I64Min} /\ ExactExpectedFee = 0
    /\ FeeOutcomeWith(U64Max) = "Ok"

\* the identities of the nullifiers of the completed transactions, whatever
\* their kind, in the canonical address tree
CompletedIdentities ==
    {derive_address(completed[k].input_nullifiers[i], CANONICAL_ADDRESS_TREE) :
        k \in 1..Len(completed), i \in 1..2}

\* the first address-tree info of the executed request that is not the
\* canonical tree, in the order the registration looks at them ("none" if both
\* are canonical)
FirstForeignTree ==
    IF pending.light.tree0 # CANONICAL_ADDRESS_TREE THEN pending.light.tree0
    ELSE IF pending.light.tree1 # CANONICAL_ADDRESS_TREE THEN pending.light.tree1
    ELSE "none"

----------------------------------------------------------------------------
(* Properties relating the tree, the registry and the balances (Spec)      *)

\* C31: next_index is even in every reachable state and counts two leaves per
\* completed transaction; a transaction that meets the capacity error meets
\* it at its first append, with the tree full, and none fails at its second
\* append: no commitment0 is in the tree without its commitment1.
C31_AppendsInPairs ==
    /\ tree.next_index % 2 = 0
    /\ tree.next_index = 2 * Len(completed)
    /\ Executed =>
          /\ last.err = "MerkleTreeFull" =>
                (LastStep = "append0" /\ tree.next_index = TreeCapacity)
          /\ "append0" \in StepsPassed(last) =>
                ("append1" \in StepsPassed(last) /\ last.err = "Ok")

\* a transaction that passed every check, the registration and its payments
\* met the full tree at its first append
C31_Witness ==
    /\ Rejected /\ last.err = "MerkleTreeFull" /\ LastStep = "append0"
    /\ "register" \in StepsPassed(last)
    /\ tree.next_index = TreeCapacity /\ tree.next_index % 2 = 0

\* C32: from the empty tree and the empty registry, after any sequence of
\* deposit, withdraw and swap requests the number of registered nullifiers
\* equals next_index and both are twice the number of completed transactions.
C32_NullifiersMatchLeaves ==
    /\ Cardinality(registry) = tree.next_index
    /\ Cardinality(registry) = 2 * Len(completed)

\* a deposit and a transaction of another kind completed and a third request
\* was rejected: four nullifiers and four leaves
C32_Witness ==
    /\ Rejected /\ Len(completed) = 2
    /\ completed[1].kind = "deposit" /\ completed[2].kind # "deposit"
    /\ Cardinality(registry) = 4 /\ tree.next_index = 4

RECURSIVE PublicAmountSum(_)
\* the sum of the public amounts of the first n completed transactions:
\* ext_amount - fee for a deposit, -(|ext_amount| + fee) for a withdraw
PublicAmountSum(n) ==
    IF n = 0 THEN 0
    ELSE PublicAmountSum(n - 1) + completed[n].ext_amount - completed[n].fee

RECURSIVE DepositFeeSum(_)
\* the fees of the deposits among the first n completed transactions
DepositFeeSum(n) ==
    IF n = 0 THEN 0
    ELSE DepositFeeSum(n - 1)
            + (IF completed[n].kind = "deposit" THEN completed[n].fee ELSE 0)

\* only deposits and withdraws have completed
SingleAsset == \A k \in 1..Len(completed) : completed[k].kind \in {"deposit", "withdraw"}

\* C33: from an empty pool, after any sequence of completed deposits and
\* withdraws the custody balance is at least the sum of the public amounts
\* accepted so far; it exceeds the sum by the fees of the deposits, which the
\* payer pays beside ext_amount: a deposit credits custody with ext_amount and
\* a withdraw debits it by |ext_amount| + fee.
C33_CustodyCoversPublicAmounts ==
    SingleAsset =>
        /\ bal.reserve_a >= PublicAmountSum(Len(completed))
        /\ bal.reserve_a = PublicAmountSum(Len(completed)) + DepositFeeSum(Len(completed))
        /\ bal.reserve_a >= 0

\* a deposit and then a withdraw with a fee completed
C33_Witness ==
    /\ Len(completed) = 2 /\ SingleAsset
    /\ completed[1].kind = "deposit" /\ completed[2].kind = "withdraw"
    /\ completed[2].fee > 0
    /\ bal.reserve_a = completed[1].ext_amount + completed[2].ext_amount - completed[2].fee
    /\ bal.reserve_a > PublicAmountSum(2)

\* C34: a completed swap lowers the input custody balance by no more than
\* |ext_amount| + fee, whatever the exchange payload and accounts are.
C34_SwapSpendsAtMostPublicAmount ==
    [][ (phase = "pending" /\ phase' = "done" /\ pending.kind = "swap"
            /\ last'.err = "Ok") =>
           bal.reserve_a - bal'.reserve_a <= Abs(pending.ext_amount) + pending.fee ]_vars

\* C35: a completed swap leaves the output custody balance at its value
\* before the exchange call plus ext_min_amount_out; the rest of the amount
\* received, received - ext_min_amount_out, is with the fee recipient; the
\* SwapEvent record, the last one emitted, reports |ext_amount| as input
\* amount and the amount received as output amount.
C35_SwapCreditsMinimum ==
    [][ (phase = "pending" /\ phase' = "done" /\ pending.kind = "swap"
            /\ last'.err = "Ok") =>
           LET received == pending.exchange.received
               record == events'[Len(events')]
           IN  /\ bal'.reserve_b - bal.reserve_b = pending.ext_min_amount_out
               /\ bal'.fee_b - bal.fee_b = received - pending.ext_min_amount_out
               /\ (bal'.reserve_b - bal.reserve_b) + (bal'.fee_b - bal.fee_b) = received
               /\ Len(events') = Len(events) + 2
               /\ record.type = "SwapEvent"
               /\ record.input_amount = Abs(pending.ext_amount)
               /\ record.output_amount = received ]_vars

\* a swap that received more than its minimum completed: the record reports
\* the amount received, custody kept the minimum
C35_Witness ==
    /\ Executed /\ pending.kind = "swap" /\ last.err = "Ok"
    /\ events[Len(events)].type = "SwapEvent"
    /\ events[Len(events)].output_amount = pending.exchange.received
    /\ events[Len(events)].output_amount > pending.ext_min_amount_out
    /\ events[Len(events)].input_amount = -pending.ext_amount
    /\ bal.reserve_b = pending.ext_min_amount_out

----------------------------------------------------------------------------
(* Properties of zero and minimum amounts in the handlers (Spec)           *)

\* C36: no swap completes with ext_min_amount_out = 0 and no deposit with
\* ext_amount <= fee.  A deposit with 0 <= ext_amount <= fee, ext_amount = 0
\* included, that reaches the leg-0 check is rejected there with
\* InvalidPublicAmountData and never reaches the direction check; a swap with
\* ext_min_amount_out = 0 that reaches the leg-1 check has passed the
\* direction checks and is rejected there with InvalidPublicAmountData.
C36_ZeroAmountsRejected ==
    Executed =>
        /\ (last.err = "Ok" /\ pending.kind = "swap") => pending.ext_min_amount_out > 0
        /\ (last.err = "Ok" /\ pending.kind = "deposit") => pending.ext_amount > pending.fee
        /\ (pending.kind = "deposit" /\ pending.ext_amount >= 0
               /\ pending.ext_amount <= pending.fee) =>
              /\ "direction" \notin Range(last.steps)
              /\ "amount0" \in Range(last.steps) =>
                    (LastStep = "amount0" /\ last.err = "InvalidPublicAmountData")
        /\ (pending.kind = "swap" /\ pending.ext_min_amount_out = 0) =>
              /\ last.err # "Ok"
              /\ "amount1" \in Range(last.steps) =>
                    /\ {"direction", "min_out", "amount0"} \subseteq StepsPassed(last)
                    /\ LastStep = "amount1" /\ last.err = "InvalidPublicAmountData"

\* a swap with minimum 0 passed the direction checks and the leg-0 check and
\* was rejected at the leg-1 check, although its leg-1 bytes encode 0
C36_Witness ==
    /\ Rejected /\ pending.kind = "swap" /\ pending.ext_min_amount_out = 0
    /\ LastStep = "amount1" /\ last.err = "InvalidPublicAmountData"
    /\ "min_out" \in StepsPassed(last)
    /\ FrFromBytes(pending.public_amount1) = 0

\* C37: no deposit, withdraw or swap request ends with ArithmeticOverflow from
\* negating ext_amount: a request whose ext_amount is the signed 64-bit
\* minimum that reaches the leg-0 check is rejected there with
\* InvalidPublicAmountData, so neither validate_fee nor the handlers'
\* negation of ext_amount runs on it, and the negation step never fails.
C37_NegationNeverOverflows ==
    Executed =>
        /\ last.err # "ArithmeticOverflow"
        /\ "negate" \in Range(last.steps) => "negate" \in StepsPassed(last)
        /\ pending.ext_amount = I64Min =>
              /\ Range(last.steps) \cap {"fee", "negate"} = {}
              /\ "amount0" \in Range(last.steps) =>
                    (LastStep = "amount0" /\ last.err = "InvalidPublicAmountData")

\* a withdrawal of the signed minimum whose leg-0 bytes encode the amount the
\* client would compute was rejected at the leg-0 check
C37_Witness ==
    /\ Rejected /\ pending.kind = "withdraw" /\ pending.ext_amount = I64Min
    /\ LastStep = "amount0" /\ last.err = "InvalidPublicAmountData"
    /\ pending.public_amount0 = ClientPublicAmount(pending.ext_amount, pending.fee)
    /\ validate_fee(pending.ext_amount, pending.fee, config.deposit_fee_rate,
                    config.withdrawal_fee_rate, config.fee_error_margin)
           = "ArithmeticOverflow"

----------------------------------------------------------------------------
(* Encodings of the claimed public amount (SpecAmt)                        *)

\* the 32-byte values congruent to b modulo the field modulus
Congruent(b) == {c \in 0..Bytes32Max : c % FieldModulus = b % FieldModulus}

\* C38: for the same ext_amount and fee, the decision of check_public_amount
\* on the claimed bytes is the decision it gives on every 32-byte value
\* congruent to them modulo the field modulus, the canonical one included.
C38_DecisionDependsOnResidue ==
    AmtCalled =>
        \A c \in Congruent(amtProbe.public_amount_bytes) :
            check_public_amount(amtProbe.ext_amount, amtProbe.fee, c)
                = (amtProbe.out = "true")

\* a value at or above the modulus was accepted for a deposit amount, and it
\* is not the canonical encoding of the expected amount
C38_Witness ==
    /\ AmtCalled /\ amtProbe.out = "true"
    /\ amtProbe.ext_amount > 0
    /\ amtProbe.public_amount_bytes >= FieldModulus
    /\ amtProbe.public_amount_bytes # amtProbe.ext_amount - amtProbe.fee
    /\ amtProbe.public_amount_bytes % FieldModulus = amtProbe.ext_amount - amtProbe.fee

====
